---------------------------- MODULE Spec2Model ----------------------------
(***************************************************************************)
(* Model of the signal-combination core of the UpTrade pipeline:           *)
(*   src/src/signals/combiner.py             SignalCombiner                *)
(*   src/src/controllers/sniper_controller.py, vzo_controller.py           *)
(*                                                                         *)
(* Arrays are sequences (TLA+ index k is numpy index k-1).  Floats that    *)
(* the combiner compares are kept exact: a weight is an integer and a      *)
(* threshold or score is a pair <<numerator, denominator>> with a          *)
(* positive denominator.  A float cell that may be missing is <<>> for     *)
(* NaN and <<v>> for the value v.                                          *)
(***************************************************************************)
EXTENDS Integers, Sequences, FiniteSets, TLC

VARIABLES
    config,     \* SignalCombiner.config (mode, indicators, weighted_threshold, confirm_window)
    signals,    \* the caller's mapping {name -> array} handed to combine
    result,     \* what the last combine call returned or raised
    memo,       \* history: the first combine call of the behaviour (config, signals, result)
    sniper,     \* SniperController: indicator output of the last compute_signal and its return
    vzo,        \* VZOController: the same
    ctl,        \* a BaseVBTController subclass instance: class, config, _current_signal, processed_data
    kern,       \* the last run of an indicator core (sniper_core_1d_nb / vzo_core_1d_nb): inputs and outputs
    ma,         \* the last call of a moving-average entry point: arguments and outcome
    svc         \* the service layer: a deploy_bot call in progress, or the updater's threads and the engine

vars == <<config, signals, result, memo, sniper, vzo, ctl, kern, ma, svc>>

----------------------------------------------------------------------------
(* Bounds *)

MaxLen == 4        \* longest array of the CONFIRM-mode inputs
MaxWide == 1       \* longest array of the inputs with three indicators
MaxInd == 2        \* longest config.indicators list of the WEIGHTED-mode inputs
MaxBars == 2       \* longest indicator output seen by a controller
MaxKernBars == 5   \* bars an indicator core is run over
MaxSrc == 3        \* longest series handed to a moving-average kernel
MaxWindow == 3     \* largest moving-average window

----------------------------------------------------------------------------
(* Small helpers *)

Min(a, b) == IF a < b THEN a ELSE b
Max(a, b) == IF a > b THEN a ELSE b

RECURSIVE SetSum(_, _)
SetSum(f, S) ==
    IF S = {} THEN 0
    ELSE LET x == CHOOSE y \in S : TRUE IN f[x] + SetSum(f, S \ {x})

\* np.sign on an integer
Sign(x) == IF x > 0 THEN 1 ELSE IF x < 0 THEN -1 ELSE 0

\* sequences over S of length exactly n / at most n
SeqsOfLen(S, n) == [1..n -> S]
SeqsUpTo(S, n) == UNION {SeqsOfLen(S, k) : k \in 0..n}

None == [kind |-> "none"]

----------------------------------------------------------------------------
(* SignalCombiner: the pure reducers *)

\* n_bars of a validated mapping: every array has this length
NBars(sigs) == Len(sigs[CHOOSE name \in DOMAIN sigs : TRUE])

\* mutant: np.any in place of np.all
_combine_and_Any(sigs) ==
    [i \in 1..NBars(sigs) |->
        LET any_long  == \E name \in DOMAIN sigs : sigs[name][i] = 1
            any_short == \E name \in DOMAIN sigs : sigs[name][i] = -1
        IN  IF any_long THEN 1 ELSE IF any_short THEN -1 ELSE 0]

\* _combine_and: np.all(matrix == 1), np.all(matrix == -1), nested np.where
_combine_and(sigs) ==
    [i \in 1..NBars(sigs) |->
        LET all_long  == \A name \in DOMAIN sigs : sigs[name][i] = 1
            all_short == \A name \in DOMAIN sigs : sigs[name][i] = -1
        IN  IF all_long THEN 1 ELSE IF all_short THEN -1 ELSE 0]

\* mutant: a conflict is left neutral, no majority vote
_combine_or_NoVote(sigs) ==
    [i \in 1..NBars(sigs) |->
        LET has_long  == \E name \in DOMAIN sigs : sigs[name][i] = 1
            has_short == \E name \in DOMAIN sigs : sigs[name][i] = -1
        IN  IF has_long /\ ~has_short THEN 1
            ELSE IF has_short /\ ~has_long THEN -1
            ELSE 0]

\* _combine_or: counts, the two masked assignments, then the conflict vote
_combine_or(sigs) ==
    [i \in 1..NBars(sigs) |->
        LET long_count  == Cardinality({name \in DOMAIN sigs : sigs[name][i] = 1})
            short_count == Cardinality({name \in DOMAIN sigs : sigs[name][i] = -1})
            has_long    == long_count > 0
            has_short   == short_count > 0
            conflict    == has_long /\ has_short
            vote_sum    == SetSum([name \in DOMAIN sigs |-> sigs[name][i]], DOMAIN sigs)
        IN  IF conflict THEN Sign(vote_sum)
            ELSE IF has_long /\ ~has_short THEN 1
            ELSE IF has_short /\ ~has_long THEN -1
            ELSE 0]

\* weight_map built by the loop over config.indicators: a later entry
\* overwrites an earlier one of the same name
WeightMap(cfg) ==
    LET inds  == cfg.indicators
        names == {inds[k].name : k \in DOMAIN inds}
    IN  [name \in names |->
            LET last == CHOOSE k \in DOMAIN inds :
                            /\ inds[k].name = name
                            /\ \A m \in DOMAIN inds : inds[m].name = name => m <= k
            IN  inds[last].weight]

\* mutant: an unlisted name weighs 0
WeightOf_DefaultZero(cfg, name) ==
    IF name \in DOMAIN WeightMap(cfg) THEN WeightMap(cfg)[name] ELSE 0

\* weight_map.get(name, 1.0)
WeightOf(cfg, name) ==
    IF name \in DOMAIN WeightMap(cfg) THEN WeightMap(cfg)[name] ELSE 1

\* total_weight accumulated over the input mapping
TotalWeight(cfg, sigs) ==
    SetSum([name \in DOMAIN sigs |-> WeightOf(cfg, name)], DOMAIN sigs)

\* weighted_sum[i]
WeightedSum(cfg, sigs, i) ==
    SetSum([name \in DOMAIN sigs |-> sigs[name][i] * WeightOf(cfg, name)], DOMAIN sigs)

\* normalized[i] as an exact fraction: divided only when total_weight > 0
Normalized(cfg, sigs, i) ==
    IF TotalWeight(cfg, sigs) > 0
    THEN <<WeightedSum(cfg, sigs, i), TotalWeight(cfg, sigs)>>
    ELSE <<WeightedSum(cfg, sigs, i), 1>>

\* comparisons of fractions with positive denominators
FracGE(p, q) == p[1] * q[2] >= q[1] * p[2]
FracLE(p, q) == p[1] * q[2] <= q[1] * p[2]
FracNeg(p) == <<-p[1], p[2]>>

\* mutant: the weighted sum is returned unthresholded
_combine_weighted_Raw(cfg, sigs) ==
    [i \in 1..NBars(sigs) |-> WeightedSum(cfg, sigs, i)]

\* _combine_weighted
_combine_weighted(cfg, sigs) ==
    [i \in 1..NBars(sigs) |->
        LET normalized == Normalized(cfg, sigs, i)
            threshold  == cfg.weighted_threshold
        IN  IF FracGE(normalized, threshold) THEN 1
            ELSE IF FracLE(normalized, FracNeg(threshold)) THEN -1
            ELSE 0]

\* names of the config entries with a given role, in list order
RoleNames(cfg, role) ==
    LET inds == cfg.indicators
    IN  SelectSeq(inds, LAMBDA c : c.role = role)

\* numpy's normalisation of one slice bound against an axis of length n
SliceBound(k, n) == IF k < 0 THEN Max(k + n, 0) ELSE Min(k, n)

\* the 0-based columns selected by sec_matrix[:, start:end]
SliceCols(start, end, n) ==
    {j \in 0..(n - 1) : SliceBound(start, n) <= j /\ j < SliceBound(end, n)}

\* _combine_confirm once the primary array is found: the pass-through
\* without secondaries, else the window scan
ConfirmWithPrimary(cfg, sigs, primary_name) ==
    LET secondary_names == RoleNames(cfg, "secondary")
        primary == sigs[primary_name]
        n_bars  == Len(primary)
        window  == cfg.confirm_window
        sec     == {secondary_names[k].name : k \in DOMAIN secondary_names}
                       \cap DOMAIN sigs
    IN  IF sec = {} THEN primary
        ELSE [k \in 1..n_bars |->
                LET i         == k - 1
                    direction == primary[k]
                    start     == Max(0, i - window)
                    end       == Min(n_bars, i + window + 1)
                IN  IF direction = 0 THEN 0
                    ELSE IF \E name \in sec :
                              \E j \in SliceCols(start, end, n_bars) :
                                  sigs[name][j + 1] = direction
                         THEN direction
                         ELSE 0]

\* mutant: without a usable primary the fallback is OR instead of AND
_combine_confirm_OrFallback(cfg, sigs) ==
    LET primary_names == RoleNames(cfg, "primary")
    IN  IF primary_names = <<>> THEN _combine_or(sigs)
        ELSE IF primary_names[1].name \notin DOMAIN sigs THEN _combine_or(sigs)
        ELSE ConfirmWithPrimary(cfg, sigs, primary_names[1].name)

\* _combine_confirm: the first primary entry, the two fallbacks to AND
_combine_confirm(cfg, sigs) ==
    LET primary_names == RoleNames(cfg, "primary")
    IN  IF primary_names = <<>> THEN _combine_and(sigs)
        ELSE IF primary_names[1].name \notin DOMAIN sigs THEN _combine_and(sigs)
        ELSE ConfirmWithPrimary(cfg, sigs, primary_names[1].name)

\* lengths = {name: len(arr)}
Lengths(sigs) == [name \in DOMAIN sigs |-> Len(sigs[name])]

\* the mode dispatch of combine
Dispatch(cfg, sigs) ==
    IF cfg.mode = "and" THEN [kind |-> "ok", arr |-> _combine_and(sigs)]
    ELSE IF cfg.mode = "or" THEN [kind |-> "ok", arr |-> _combine_or(sigs)]
    ELSE IF cfg.mode = "weighted" THEN [kind |-> "ok", arr |-> _combine_weighted(cfg, sigs)]
    ELSE IF cfg.mode = "confirm" THEN [kind |-> "ok", arr |-> _combine_confirm(cfg, sigs)]
    ELSE [kind |-> "error", error |-> "Unknown mode"]

\* the error np.stack raises when the arrays reach it unvalidated
StackError(sigs) ==
    IF DOMAIN sigs = {}
    THEN [kind |-> "error", error |-> "need at least one array to stack"]
    ELSE [kind |-> "error", error |-> "all input arrays must have the same shape"]

EqualLengths(sigs) == Cardinality({Len(sigs[name]) : name \in DOMAIN sigs}) <= 1

\* mutant: the empty mapping is not rejected up front
combine_NoEmptyCheck(cfg, sigs) ==
    IF DOMAIN sigs = {} THEN StackError(sigs)
    ELSE IF ~EqualLengths(sigs) THEN
        [kind |-> "error", error |-> "Signal arrays have different lengths",
         lengths |-> Lengths(sigs)]
    ELSE Dispatch(cfg, sigs)

\* mutant: the lengths are not compared up front
combine_NoLengthCheck(cfg, sigs) ==
    IF DOMAIN sigs = {} THEN [kind |-> "error", error |-> "No signals provided"]
    ELSE IF ~EqualLengths(sigs) THEN StackError(sigs)
    ELSE Dispatch(cfg, sigs)

\* SignalCombiner.combine: the two validations, then the dispatch on mode
combine(cfg, sigs) ==
    IF DOMAIN sigs = {} THEN
        [kind |-> "error", error |-> "No signals provided"]
    ELSE IF Cardinality({Len(sigs[name]) : name \in DOMAIN sigs}) > 1 THEN
        [kind |-> "error", error |-> "Signal arrays have different lengths",
         lengths |-> Lengths(sigs)]
    ELSE Dispatch(cfg, sigs)

\* mutant: CONFIRM mode filters the primary array in place instead of a copy
InputsAfterCombine_InPlace(cfg, sigs) ==
    LET primary_names == RoleNames(cfg, "primary")
    IN  IF /\ cfg.mode = "confirm"
           /\ combine(cfg, sigs).kind = "ok"
           /\ primary_names # <<>>
           /\ primary_names[1].name \in DOMAIN sigs
        THEN [sigs EXCEPT ![primary_names[1].name] = combine(cfg, sigs).arr]
        ELSE sigs

\* what the caller's arrays hold after combine returned: combine only reads
\* them (np.stack, astype and primary.copy() all build new arrays)
InputsAfterCombine(cfg, sigs) == sigs

\* self.config after combine returned: no method assigns it after __init__
ConfigAfterCombine(cfg, sigs) == cfg

----------------------------------------------------------------------------
(* Inputs of the combiner *)

Modes == {"and", "or", "weighted", "confirm"}
Values == {-1, 0, 1}

\* IndicatorSignalConfig (signal_source is not read by combine)
Entry(name, weight, role) == [name |-> name, weight |-> weight, role |-> role]

\* SignalCombinerConfig
Config(mode, inds, thr, win) ==
    [mode |-> mode, indicators |-> inds, weighted_threshold |-> thr, confirm_window |-> win]

\* the field defaults of SignalCombinerConfig: threshold 0.5, window 3
DefaultThreshold == <<1, 2>>
DefaultWindow == 3
DefaultConfig(mode) == Config(mode, <<>>, DefaultThreshold, DefaultWindow)

\* every mapping from a subset of names to arrays drawn from arrs
MapsOver(names, arrs) == UNION {[D -> arrs] : D \in SUBSET names}

\* arrays of length n with at most two non-neutral bars
SparseArrays(n) ==
    {s \in SeqsOfLen(Values, n) : Cardinality({k \in 1..n : s[k] # 0}) <= 2}

Weights == {-2, 1, 2}
Thresholds == {<<-1, 2>>, <<0, 1>>, <<1, 2>>, <<1, 1>>}
Windows == {-2, 0, 1}

WeightEntries == {Entry(nm, w, "secondary") : nm \in {"a", "b"}, w \in Weights}
RoleEntries == {Entry(nm, 1, r) : nm \in {"a", "b"}, r \in {"primary", "secondary"}}

\* three indicators, any lengths (equal or not), every mode with default fields
WideInputs ==
    \E m \in Modes :
        /\ config = DefaultConfig(m)
        /\ signals \in MapsOver({"a", "b", "c"}, SeqsUpTo(Values, MaxWide))

\* WEIGHTED mode: every weight list over two names, every threshold
WeightedInputs ==
    \E inds \in SeqsUpTo(WeightEntries, MaxInd), thr \in Thresholds :
        /\ config = Config("weighted", inds, thr, DefaultWindow)
        /\ signals \in MapsOver({"a", "b"}, SeqsUpTo(Values, 1))

\* CONFIRM mode: every role list of up to two entries over two names (combine
\* reads only the first primary and the set of secondaries), every window,
\* arrays of one length
ConfirmInputs ==
    \E inds \in SeqsUpTo(RoleEntries, 2), win \in Windows :
        /\ config = Config("confirm", inds, DefaultThreshold, win)
        /\ \E n \in 0..MaxLen : signals \in MapsOver({"a", "b"}, SparseArrays(n))

----------------------------------------------------------------------------
(* Controllers *)

NaN == <<>>
isnan(x) == x = NaN

\* the cells of an event series: missing, or present (the value may be 0.0;
\* compute_signal reads a cell only through isnan)
Cells == {NaN, <<0>>}

\* a controller before its first compute_signal
Idle == [major_buy |-> <<>>, major_sell |-> <<>>, ret |-> None]

\* mutant: the sell check comes first
Sniper_compute_signal_SellFirst(major_buy, major_sell) ==
    IF Len(major_sell) > 0 /\ ~isnan(major_sell[Len(major_sell)]) THEN -1
    ELSE IF Len(major_buy) > 0 /\ ~isnan(major_buy[Len(major_buy)]) THEN 1
    ELSE 0

\* SniperController.compute_signal, from the indicator's event series on
Sniper_compute_signal(major_buy, major_sell) ==
    IF Len(major_buy) > 0 /\ ~isnan(major_buy[Len(major_buy)]) THEN 1
    ELSE IF Len(major_sell) > 0 /\ ~isnan(major_sell[Len(major_sell)]) THEN -1
    ELSE 0

\* VZOController.compute_signal, from the indicator's event series on
VZO_compute_signal(major_buy, major_sell) ==
    IF Len(major_buy) > 0 /\ ~isnan(major_buy[Len(major_buy)]) THEN 1
    ELSE IF Len(major_sell) > 0 /\ ~isnan(major_sell[Len(major_sell)]) THEN -1
    ELSE 0

\* the cells of the composite series of SpectralAnalysis: missing or a value
CompositeCells == {NaN, <<-1>>, <<0>>, <<1>>}

\* CycleControllerConfig.composite_threshold
CompositeThresholds == {-1, 0, 1}

\* mutant: a latest value on the threshold counts as above it
Cycle_compute_signal_AtOrAbove(composite, composite_threshold) ==
    IF Len(composite) = 0 \/ isnan(composite[Len(composite)]) THEN 0
    ELSE LET latest == composite[Len(composite)][1]
         IN  IF latest >= composite_threshold THEN 1
             ELSE IF latest < composite_threshold THEN -1
             ELSE 0

\* CycleController.compute_signal, from the indicator's composite series on
Cycle_compute_signal(composite, composite_threshold) ==
    IF Len(composite) = 0 \/ isnan(composite[Len(composite)]) THEN 0
    ELSE LET latest == composite[Len(composite)][1]
         IN  IF latest > composite_threshold THEN 1
             ELSE IF latest < composite_threshold THEN -1
             ELSE 0

\* the controller classes
ControllerClasses == {"sniper", "vzo", "cycle"}

\* BaseVBTController.__init__
NewController(cls, composite_threshold) ==
    [cls |-> cls, composite_threshold |-> composite_threshold,
     _current_signal |-> 0, processed_data |-> <<>>,
     computed |-> FALSE, last |-> None, update |-> None]

\* what one compute_signal call of a controller of class cls can do on a
\* frame of n bars: raise (a column is missing, the indicator fails), or
\* return the decision on the indicator's output
ComputeOutcomes(c, n) ==
    {[kind |-> "error"]} \cup
    IF c.cls = "cycle"
    THEN {[kind |-> "ok", composite |-> comp,
           value |-> Cycle_compute_signal(comp, c.composite_threshold)] :
          comp \in SeqsOfLen(CompositeCells, n)}
    ELSE {[kind |-> "ok", major_buy |-> ev[1], major_sell |-> ev[2],
           value |-> IF c.cls = "sniper" THEN Sniper_compute_signal(ev[1], ev[2])
                     ELSE VZO_compute_signal(ev[1], ev[2])] :
          ev \in SeqsOfLen(Cells, n) \X SeqsOfLen(Cells, n)}

\* mutant: a failed computation is stored as the error code -2
SignalAfterUpdate_ErrorCode(cur, n, outcome) ==
    IF n = 0 THEN cur
    ELSE IF outcome.kind = "error" THEN -2
    ELSE outcome.value

\* BaseVBTController.update_processed_data: the new _current_signal for a
\* frame of n bars on which compute_signal would end in outcome
SignalAfterUpdate(cur, n, outcome) ==
    IF n = 0 THEN cur
    ELSE IF outcome.kind = "error" THEN 0
    ELSE outcome.value

\* BaseVBTController.get_signal
get_signal(c) == c._current_signal

----------------------------------------------------------------------------
(* Indicator cores, bar by bar.  A core is a sequence of loops over the    *)
(* bars; bar i of every output depends on the inputs of bars i-2..i and on *)
(* the outputs of bar i-1 only, so the model runs the loops in step and    *)
(* keeps, for each array, the cells of the latest bars.  Floats are small  *)
(* integers; a float that can be NaN is a cell.                            *)

\* float comparisons: every comparison with NaN is false
Gt(a, b) == a # NaN /\ b # NaN /\ a[1] > b[1]
Lt(a, b) == a # NaN /\ b # NaN /\ a[1] < b[1]
Ge(a, b) == a # NaN /\ b # NaN /\ a[1] >= b[1]
Le(a, b) == a # NaN /\ b # NaN /\ a[1] <= b[1]

\* np.sign(a - b)
SignDiff(a, b) == IF a = NaN \/ b = NaN THEN NaN ELSE <<Sign(a[1] - b[1])>>

\* the last k cells of an array
LastCells(arr, k) == SubSeq(arr, Max(1, Len(arr) - k + 1), Len(arr))

\* arr[i - back] when arr holds the cells up to bar i
Back(arr, back) == arr[Len(arr) - back]

\* mutant: the counter is not clamped before the adjustment
SC_step_NoClamp(SC_prev, k1, k2, k1_prev, k2_prev) ==
    IF Gt(k2, <<0>>)
    THEN LET count_chg == IF Le(k1, k2) /\ Gt(k1_prev, k2_prev) /\ Gt(k2_prev, <<0>>)
                          THEN -1 ELSE 0
         IN  SC_prev + count_chg
    ELSE LET count_chg == IF Ge(k1, k2) /\ Lt(k1_prev, k2_prev) /\ Le(k2_prev, <<0>>)
                          THEN 1 ELSE 0
         IN  SC_prev + count_chg

\* sniper_core_1d_nb: SC[i] for i >= 2 from SC[i-1] and k1v, k2v at i, i-1
SC_step(SC_prev, k1, k2, k1_prev, k2_prev) ==
    IF Gt(k2, <<0>>)
    THEN LET count_chg == IF Le(k1, k2) /\ Gt(k1_prev, k2_prev) /\ Gt(k2_prev, <<0>>)
                          THEN -1 ELSE 0
         IN  Min(IF SC_prev < 0 THEN SC_prev ELSE 0, 0) + count_chg
    ELSE LET count_chg == IF Ge(k1, k2) /\ Lt(k1_prev, k2_prev) /\ Le(k2_prev, <<0>>)
                          THEN 1 ELSE 0
         IN  Max(IF SC_prev > 0 THEN SC_prev ELSE 0, 0) + count_chg

\* the event cells of a bar on which nothing fired (np.full(n, np.nan))
NoEvents == [minor_buy |-> NaN, major_buy |-> NaN, minor_sell |-> NaN, major_sell |-> NaN]

\* mutant: a major event does not look at the counter
Sniper_events_NoAim(f0, f1, f2, SC_i, overbought_oversold) ==
    LET s0 == Sign(f0 - f1)
        s1 == Sign(f1 - f2)
        buy == s0 > s1 /\ f0 < -overbought_oversold
        sell == s0 < s1 /\ f0 > overbought_oversold
    IN  [minor_buy |-> IF buy THEN <<f1>> ELSE NaN,
         major_buy |-> IF buy THEN <<f1>> ELSE NaN,
         minor_sell |-> IF sell THEN <<f1>> ELSE NaN,
         major_sell |-> IF sell THEN <<f1>> ELSE NaN]

\* sniper_core_1d_nb: the events of bar i >= 2 from f3[i], f3[i-1], f3[i-2]
\* (f3 is always finite) and SC[i]
Sniper_events(f0, f1, f2, SC_i, overbought_oversold) ==
    LET s0 == Sign(f0 - f1)
        s1 == Sign(f1 - f2)
    IN  [minor_buy |-> IF s0 > s1 /\ f0 < -overbought_oversold THEN <<f1>> ELSE NaN,
         major_buy |-> IF s0 > s1 /\ f0 < -overbought_oversold /\ SC_i > 1
                       THEN <<f1>> ELSE NaN,
         minor_sell |-> IF s0 < s1 /\ f0 > overbought_oversold THEN <<f1>> ELSE NaN,
         major_sell |-> IF s0 < s1 /\ f0 > overbought_oversold /\ SC_i < -1
                        THEN <<f1>> ELSE NaN]

\* mutant: a sell event fires on any change of direction
VZO_events_AnyTurn(v0, v1, v2, minor_buy_val, minor_sell_val, minor_major_range) ==
    LET s0 == SignDiff(v0, v1)
        s1 == SignDiff(v1, v2)
        turn == s0 # NaN /\ s1 # NaN /\ s0 # s1
    IN  [minor_buy |-> IF Gt(s0, s1) /\ Lt(v0, <<minor_buy_val>>) THEN v1 ELSE NaN,
         major_buy |-> IF Gt(s0, s1) /\ Lt(v0, <<minor_buy_val - minor_major_range>>)
                       THEN v1 ELSE NaN,
         minor_sell |-> IF turn /\ Gt(v0, <<minor_sell_val>>) THEN v1 ELSE NaN,
         major_sell |-> IF turn /\ Gt(v0, <<minor_sell_val + minor_major_range>>)
                        THEN v1 ELSE NaN]

\* vzo_core_1d_nb: the events of bar i >= 2 from turbo_vzo[i], [i-1], [i-2]
VZO_events(v0, v1, v2, minor_buy_val, minor_sell_val, minor_major_range) ==
    LET s0 == SignDiff(v0, v1)
        s1 == SignDiff(v1, v2)
    IN  [minor_buy |-> IF Gt(s0, s1) /\ Lt(v0, <<minor_buy_val>>) THEN v1 ELSE NaN,
         major_buy |-> IF Gt(s0, s1) /\ Lt(v0, <<minor_buy_val - minor_major_range>>)
                       THEN v1 ELSE NaN,
         minor_sell |-> IF Lt(s0, s1) /\ Gt(v0, <<minor_sell_val>>) THEN v1 ELSE NaN,
         major_sell |-> IF Lt(s0, s1) /\ Gt(v0, <<minor_sell_val + minor_major_range>>)
                        THEN v1 ELSE NaN]

\* the values of the Fisher series f3 past its first bar (finite by lines 154-157)
F3Values == {-2, 0, 2}

\* (k1v[i], k2v[i]): both signs of k2v, k1v on either side of k2v, and NaN
\* from a warming-up moving average
KPairs == {<<(<<-2>>), (<<-1>>)>>, <<(<<-1>>), (<<-1>>)>>, <<(<<0>>), (<<-1>>)>>,
           <<(<<0>>), (<<1>>)>>, <<(<<1>>), (<<1>>)>>, <<(<<2>>), (<<1>>)>>,
           <<NaN, NaN>>}

\* overbought_oversold, a negative setting included
ZoneLevels == {-1, 1}

\* the cells of turbo_vzo
VZOCells == {NaN, <<-2>>, <<0>>, <<2>>}

\* minor_buy_val, minor_sell_val and minor_major_range
VZOLevels == {-1, 1}

\* sniper_core_1d_nb entered, before bar 0
SniperStart(overbought_oversold) ==
    [core |-> "sniper", i |-> -1, overbought_oversold |-> overbought_oversold,
     k1v |-> NaN, k2v |-> NaN, f3 |-> <<>>, SC |-> <<>>, events |-> NoEvents]

\* vzo_core_1d_nb entered, before bar 0
VZOStart(minor_buy_val, minor_sell_val, minor_major_range) ==
    [core |-> "vzo", i |-> -1, minor_buy_val |-> minor_buy_val,
     minor_sell_val |-> minor_sell_val, minor_major_range |-> minor_major_range,
     turbo_vzo |-> <<>>, events |-> NoEvents]

----------------------------------------------------------------------------
(* The moving-average kernels of ma_library_nb.py.  A float is NaN (<<>>),  *)
(* an exact fraction <<numerator, denominator>> with denominator > 0, or    *)
(* the token Finite: a finite value that is not tracked (the kernels that   *)
(* multiply by exp() weights or long decimal constants).  The kernels are   *)
(* compiled with numba's default error model, in which a float division by  *)
(* zero raises ZeroDivisionError: the cell Raised marks the bar at which a  *)
(* kernel raised, and the call then ends in an error.                       *)

RECURSIVE GCD(_, _)
GCD(a, b) == IF b = 0 THEN a ELSE GCD(b, a % b)

Abs(x) == IF x < 0 THEN -x ELSE x

\* the fraction n/d (d # 0) in lowest terms with a positive denominator
Frac(n, d) ==
    LET g == GCD(Abs(n), Abs(d))
        sgn == IF d < 0 THEN -1 ELSE 1
    IN  <<sgn * (n \div g), sgn * (d \div g)>>

\* the float of an integer
R(n) == <<n, 1>>

Raised == <<0, 0>>
Finite == <<"finite">>

FAdd(a, b) ==
    IF a = Raised \/ b = Raised THEN Raised
    ELSE IF a = NaN \/ b = NaN THEN NaN
    ELSE Frac(a[1] * b[2] + b[1] * a[2], a[2] * b[2])

FSub(a, b) ==
    IF a = Raised \/ b = Raised THEN Raised
    ELSE IF a = NaN \/ b = NaN THEN NaN
    ELSE Frac(a[1] * b[2] - b[1] * a[2], a[2] * b[2])

FMul(a, b) ==
    IF a = Raised \/ b = Raised THEN Raised
    ELSE IF a = NaN \/ b = NaN THEN NaN
    ELSE Frac(a[1] * b[1], a[2] * b[2])

\* a / b: a zero divisor raises, whatever the dividend
FDiv(a, b) ==
    IF a = Raised \/ b = Raised THEN Raised
    ELSE IF b = R(0) THEN Raised
    ELSE IF a = NaN \/ b = NaN THEN NaN
    ELSE Frac(a[1] * b[2], a[2] * b[1])

\* the array of length n whose cell i (from 0) is f[i]
Arr(f, n) == [k \in 1..n |-> f[k - 1]]

\* some cell of src[lo..hi] (indices from 0, clipped to the array) is NaN
AnyNaN(src, lo, hi) == \E j \in Max(lo, 0)..Min(hi, Len(src) - 1) : src[j + 1] = NaN

\* sma_1d_nb
sma_1d_nb(src, window) ==
    LET n == Len(src)
        cumsum[i \in 0..(n - 1)] ==
            LET added == FAdd(IF i = 0 THEN R(0) ELSE cumsum[i - 1], src[i + 1])
            IN  IF i >= window THEN FSub(added, src[i - window + 1]) ELSE added
        out[i \in 0..(n - 1)] ==
            IF i < window - 1 THEN NaN ELSE FDiv(cumsum[i], R(window))
    IN  Arr(out, n)

\* ema_1d_nb (n >= 1)
ema_1d_nb(src, window) ==
    LET n == Len(src)
        alpha == FDiv(R(2), R(window + 1))
        out[i \in 0..(n - 1)] ==
            IF i = 0 THEN src[1]
            ELSE FAdd(FMul(alpha, src[i + 1]), FMul(FSub(R(1), alpha), out[i - 1]))
    IN  Arr(out, n)

\* wma_1d_nb
wma_1d_nb(src, window) ==
    LET n == Len(src)
        denom == Frac(window * (window + 1), 2)
        RECURSIVE s(_, _)
        s(i, j) == IF j < 0 THEN R(0)
                   ELSE FAdd(s(i, j - 1), FMul(src[i - window + 1 + j + 1], R(j + 1)))
        out[i \in 0..(n - 1)] ==
            IF i < window - 1 THEN NaN ELSE FDiv(s(i, window - 1), denom)
    IN  Arr(out, n)

\* alma_1d_nb: the weights are exp() values, positive and normalised by
\* their positive sum, so a bar past the warm-up is finite when its window
\* of inputs is; with window = 0 there is no weight and the sum is 0.0
alma_1d_nb(src, window) ==
    LET n == Len(src)
        out[i \in 0..(n - 1)] ==
            IF i < window - 1 THEN NaN
            ELSE IF window = 0 THEN R(0)
            ELSE IF AnyNaN(src, i - window + 1, i) THEN NaN
            ELSE Finite
    IN  Arr(out, n)

\* jurik_1d_nb (n >= 1): bar 0 is the input; later bars are sums of products
\* of the inputs so far with powers of beta = 0.45(w-1) / (0.45(w-1) + 2),
\* whose divisor is not zero for an integer window
jurik_1d_nb(src, window) ==
    LET n == Len(src)
        out[i \in 0..(n - 1)] ==
            IF i = 0 THEN src[1]
            ELSE IF AnyNaN(src, 0, i) THEN NaN
            ELSE Finite
    IN  Arr(out, n)

\* kama_1d_nb (n >= 1): bar 0 is the input; later bars move the previous
\* output towards the input by sc = (er * (fast_end - slow_end) + slow_end)^2,
\* er = direction / noise being computed only for noise != 0
kama_1d_nb(src, window) ==
    LET n == Len(src)
        out[i \in 0..(n - 1)] ==
            IF i = 0 THEN src[1]
            ELSE IF out[i - 1] = NaN \/ AnyNaN(src, i - window, i) THEN NaN
            ELSE Finite
    IN  Arr(out, n)

\* ratio ** 4
Pow4(x) == FMul(FMul(x, x), FMul(x, x))

\* mcginley_1d_nb (n >= 1)
mcginley_1d_nb(src, window) ==
    LET n == Len(src)
        out[i \in 0..(n - 1)] ==
            IF i = 0 THEN src[1]
            ELSE LET prev == out[i - 1]
                 IN  IF prev = Raised THEN Raised
                     ELSE IF prev = R(0) THEN src[i + 1]
                     ELSE LET ratio == FDiv(src[i + 1], prev)
                          IN  FAdd(prev, FDiv(FSub(src[i + 1], prev),
                                              FMul(R(window), Pow4(ratio))))
    IN  Arr(out, n)

\* mutant: the second EMA smooths the input again instead of the first EMA
dema_1d_nb_SmoothSrc(src, window) ==
    LET e1 == ema_1d_nb(src, window)
        e2 == ema_1d_nb(src, window)
    IN  [k \in 1..Len(src) |-> FSub(FMul(R(2), e1[k]), e2[k])]

\* dema_1d_nb (n >= 1)
dema_1d_nb(src, window) ==
    LET e1 == ema_1d_nb(src, window)
        e2 == ema_1d_nb(e1, window)
    IN  [k \in 1..Len(src) |-> FSub(FMul(R(2), e1[k]), e2[k])]

\* int(window / 2) floored at 1
HalfWindow(window) == Max(window \div 2, 1)

\* max(int(round(np.sqrt(window))), 1)
RoundSqrt(window) ==
    Max(CHOOSE r \in 0..window : (2*r - 1) * (2*r - 1) <= 4 * window
                                  /\ 4 * window < (2*r + 1) * (2*r + 1), 1)

\* _nz: a NaN becomes the default 0.0
_nz(val) == IF val = NaN THEN R(0) ELSE val

\* hull_1d_nb: a WMA that raised (window = 0) ends the call before the
\* difference is formed
hull_1d_nb(src, window) ==
    LET half == HalfWindow(window)
        w1 == wma_1d_nb(src, half)
        w2 == wma_1d_nb(src, window)
        diff == [k \in 1..Len(src) |-> FSub(FMul(R(2), _nz(w1[k])), _nz(w2[k]))]
    IN  IF \E k \in 1..Len(src) : w1[k] = Raised \/ w2[k] = Raised
        THEN [k \in 1..Len(src) |-> Raised]
        ELSE wma_1d_nb(diff, RoundSqrt(window))

\* the kernels whose output values are modelled
ValueKernels == {"sma_1d_nb", "ema_1d_nb", "wma_1d_nb", "alma_1d_nb",
                 "jurik_1d_nb", "kama_1d_nb", "mcginley_1d_nb", "dema_1d_nb",
                 "hull_1d_nb"}

\* the output array of a kernel on a series of at least one bar
KernelOut(kernel, src, window) ==
    CASE kernel = "sma_1d_nb" -> sma_1d_nb(src, window)
      [] kernel = "ema_1d_nb" -> ema_1d_nb(src, window)
      [] kernel = "wma_1d_nb" -> wma_1d_nb(src, window)
      [] kernel = "alma_1d_nb" -> alma_1d_nb(src, window)
      [] kernel = "jurik_1d_nb" -> jurik_1d_nb(src, window)
      [] kernel = "kama_1d_nb" -> kama_1d_nb(src, window)
      [] kernel = "mcginley_1d_nb" -> mcginley_1d_nb(src, window)
      [] kernel = "dema_1d_nb" -> dema_1d_nb(src, window)
      [] kernel = "hull_1d_nb" -> hull_1d_nb(src, window)

\* how a kernel call ends: the exception of the first bar that raised, or
\* the output array
Finish(kernel, out) ==
    IF \E k \in 1..Len(out) : out[k] = Raised
    THEN [kind |-> "error", error |-> "ZeroDivisionError", kernel |-> kernel]
    ELSE [kind |-> "ok", kernel |-> kernel, out |-> out]

\* the values of an input series
SrcValues == {0, 1}

\* the input series of 1..n bars
SrcSeries(n) == UNION {[1..k -> {R(v) : v \in SrcValues}] : k \in 1..n}

\* the windows a caller passes: 0 is the non-positive one
MAWindows == 0..MaxWindow

----------------------------------------------------------------------------
(* The Fisher transform of sniper_core_1d_nb.  Besides NaN and fractions a  *)
(* float here can be an infinity: <<1, 0>> is +inf and <<-1, 0>> is -inf.   *)

\* the values k3_raw[i] can take: the smoothed stochastic, an MA output
K3Raw == {NaN, <<1, 0>>, <<-1, 0>>} \cup {R(v) : v \in {-300, 50, 75, 300}}

\* Fisher_start: f3 = np.zeros(n), the loop starts at bar 1
Fisher_start == [core |-> "fisher", i |-> -1, k3v |-> NaN, k |-> NaN,
                 raw |-> NaN, f3 |-> NaN]

\* bar i >= 1 of the Fisher loop on k3_raw[i] and f3[i-1]: the rescaling of
\* k3_raw to k3v, the clamp, the transform and the hold.  min(a, b) and
\* max(a, b) keep a unless b < a (b > a): a comparison with NaN is false.
Fisher_step(k3_raw, f3_prev) ==
    LET isinf(x) == x \in {<<1, 0>>, <<-1, 0>>}
        finite(x) == x # NaN /\ ~isinf(x)
        less(a, b) ==
            IF a = NaN \/ b = NaN THEN FALSE
            ELSE IF isinf(a) THEN a[1] < 0 /\ b # a
            ELSE IF isinf(b) THEN b[1] > 0
            ELSE IF a = Finite \/ b = Finite THEN FALSE
            ELSE a[1] * b[2] < b[1] * a[2]
        min(a, b) == IF less(b, a) THEN b ELSE a
        max(a, b) == IF less(a, b) THEN b ELSE a
        k3v == FDiv(FSub(max(R(-100), min(R(100), k3_raw)), R(50)), Frac(5001, 100))
        k == max(Frac(-999, 1000), min(Frac(999, 1000), k3v))
        den == FSub(R(1), k)
        arg == IF den = R(0) THEN Raised ELSE FDiv(FAdd(R(1), k), den)
        log == IF arg = Raised THEN Raised
               ELSE IF less(arg, R(0)) THEN NaN
               ELSE IF arg = R(0) THEN <<-1, 0>>
               ELSE Finite
        raw == IF log = Raised THEN Raised
               ELSE IF log = NaN \/ f3_prev = NaN THEN NaN
               ELSE IF isinf(log) THEN log
               ELSE IF isinf(f3_prev) THEN f3_prev
               ELSE Finite
    IN  [k3v |-> k3v, k |-> k, raw |-> raw,
         f3 |-> IF raw = Raised THEN Raised
                ELSE IF raw = NaN \/ isinf(raw) THEN f3_prev ELSE raw]

----------------------------------------------------------------------------
(* The array indices (from 0) that each kernel reads or writes in the      *)
(* arrays of the series' length n, for a window >= 1.  The kernels are     *)
(* compiled without bounds checking: an index outside 0..n-1 is an access  *)
(* outside the array.                                                      *)

\* the indices i-lo, ..., i-hi of a look-back
Look(i, lo, hi) == {i - j : j \in lo..hi}

\* out[0] and out[1] are written before the loop, whatever n is
bandpass_indices(n) == {0, 1} \cup UNION {{i, i - 1, i - 2} : i \in 2..(n - 1)}

goertzel_indices(n, window_size) ==
    UNION {{i} \cup IF Min(i + 1, window_size) < 2 THEN {}
                 ELSE {i - Min(i + 1, window_size) + 1 + j : j \in 0..(Min(i + 1, window_size) - 1)}
                      \cup Look(i, 0, Min(i + 1, window_size) - 1) : i \in 0..(n - 1)}

\* every period's filter (method 0 = Hurst bandpass, else Goertzel), then
\* the rows of cycles and composite
spectral_analysis_indices(n, method, window_size) ==
    (IF method = 0 THEN bandpass_indices(n) ELSE goertzel_indices(n, window_size))
    \cup UNION {{i} : i \in 0..(n - 1)}

----------------------------------------------------------------------------
(* The dispatcher of the moving-average library *)

\* the MA type codes
MA_SMA == 0
MA_EMA == 1
MA_WMA == 2
MA_RMA == 3
MA_DEMA == 4
MA_TEMA == 5
MA_HULL == 6
MA_ALMA == 7
MA_JURIK == 8
MA_KAMA == 9
MA_FRAMA == 10
MA_VAMA == 11
MA_T3 == 12
MA_T3_EARLY == 13
MA_ZLEMA == 14
MA_MCGINLEY == 15
MA_MODULAR_FILTER == 16
MA_COVWMA == 17
MA_EDSMA == 18
MA_EHLERS_SUPER_SMOOTHER == 19
MA_EHLERS_EMA_SMOOTHER == 20
MA_AHRENS == 21
MA_ALEXANDER == 22
MA_ADXVMA == 23
MA_ILRS == 24
MA_LEADER_EMA == 25
MA_RMTA == 26
MA_DECYCLER == 27
MA_TRIANGULAR == 28
MA_XEMA == 29
MA_DONCHIAN == 30
MA_DONCHIAN_V2 == 31
MA_VWMA == 32
MA_LINREG == 33

\* MA_TYPE_NAMES: the Pine Script option names and their codes
MA_TYPE_NAMES ==
    ("Simple Moving Average" :> MA_SMA)
    @@ ("Exponential Moving Average" :> MA_EMA)
    @@ ("Weighted Moving Average" :> MA_WMA)
    @@ ("Relative Moving Average" :> MA_RMA)
    @@ ("Smoothed Moving Average" :> MA_RMA)
    @@ ("Double Exponential Moving Average" :> MA_DEMA)
    @@ ("Triple Exponential Moving Average" :> MA_TEMA)
    @@ ("Hull Moving Average" :> MA_HULL)
    @@ ("Arnaud Legoux Moving Average" :> MA_ALMA)
    @@ ("Jurik Moving Average" :> MA_JURIK)
    @@ ("Kaufman's Adaptive Moving Average" :> MA_KAMA)
    @@ ("Fractal Adaptive Moving Average" :> MA_FRAMA)
    @@ ("Volatility Adjusted Moving Average" :> MA_VAMA)
    @@ ("Tilson T3 Moving Average" :> MA_T3)
    @@ ("Tilson T3(early version) Moving Average" :> MA_T3_EARLY)
    @@ ("Zero-Lag Exponential Moving Average" :> MA_ZLEMA)
    @@ ("McGinley" :> MA_MCGINLEY)
    @@ ("Modular Filter" :> MA_MODULAR_FILTER)
    @@ ("Coefficient of Variation Weighted Moving Average" :> MA_COVWMA)
    @@ ("Ehlers Dynamic Smoothed Moving Average" :> MA_EDSMA)
    @@ ("Ehlers EMA Smoother" :> MA_EHLERS_EMA_SMOOTHER)
    @@ ("Ahrens Moving Average" :> MA_AHRENS)
    @@ ("Alexander Moving Average" :> MA_ALEXANDER)
    @@ ("Average Directional Volatility Moving Average" :> MA_ADXVMA)
    @@ ("Integral of Linear Regression Slope" :> MA_ILRS)
    @@ ("Leader Exponential Moving Average" :> MA_LEADER_EMA)
    @@ ("Recursive Moving Trendline" :> MA_RMTA)
    @@ ("Simple Decycler" :> MA_DECYCLER)
    @@ ("Triangular Moving Average" :> MA_TRIANGULAR)
    @@ ("Exponential Moving Average Optimized" :> MA_XEMA)
    @@ ("Donchian" :> MA_DONCHIAN)
    @@ ("Donchian v2" :> MA_DONCHIAN_V2)
    @@ ("Volume Weighted Moving Average" :> MA_VWMA)
    @@ ("Least Squares Moving Average" :> MA_LINREG)
    @@ ("Ehlers Super Smoother" :> MA_EHLERS_SUPER_SMOOTHER)

\* universal_ma_1d_nb: the kernel that serves a code
universal_ma_kernel(ma_type) ==
    CASE ma_type = MA_SMA -> "sma_1d_nb"
      [] ma_type = MA_EMA -> "ema_1d_nb"
      [] ma_type = MA_WMA -> "wma_1d_nb"
      [] ma_type = MA_RMA -> "rma_1d_nb"
      [] ma_type = MA_DEMA -> "dema_1d_nb"
      [] ma_type = MA_TEMA -> "tema_1d_nb"
      [] ma_type = MA_HULL -> "hull_1d_nb"
      [] ma_type = MA_ALMA -> "alma_1d_nb"
      [] ma_type = MA_JURIK -> "jurik_1d_nb"
      [] ma_type = MA_KAMA -> "kama_1d_nb"
      [] ma_type = MA_FRAMA -> "frama_1d_nb"
      [] ma_type = MA_VAMA -> "vama_1d_nb"
      [] ma_type = MA_T3 -> "t3_1d_nb"
      [] ma_type = MA_T3_EARLY -> "t3_early_1d_nb"
      [] ma_type = MA_ZLEMA -> "zlema_1d_nb"
      [] ma_type = MA_MCGINLEY -> "mcginley_1d_nb"
      [] ma_type = MA_MODULAR_FILTER -> "modular_filter_1d_nb"
      [] ma_type = MA_COVWMA -> "covwma_1d_nb"
      [] ma_type = MA_EDSMA -> "edsma_1d_nb"
      [] ma_type = MA_EHLERS_SUPER_SMOOTHER -> "ehlers_super_smoother_1d_nb"
      [] ma_type = MA_EHLERS_EMA_SMOOTHER -> "ehlers_ema_smoother_1d_nb"
      [] ma_type = MA_AHRENS -> "ahrens_1d_nb"
      [] ma_type = MA_ALEXANDER -> "alexander_1d_nb"
      [] ma_type = MA_ADXVMA -> "adxvma_1d_nb"
      [] ma_type = MA_ILRS -> "ilrs_1d_nb"
      [] ma_type = MA_LEADER_EMA -> "leader_ema_1d_nb"
      [] ma_type = MA_RMTA -> "rmta_1d_nb"
      [] ma_type = MA_DECYCLER -> "decycler_1d_nb"
      [] ma_type = MA_TRIANGULAR -> "triangular_1d_nb"
      [] ma_type = MA_XEMA -> "xema_1d_nb"
      [] ma_type = MA_DONCHIAN -> "donchian_1d_nb"
      [] ma_type = MA_DONCHIAN_V2 -> "donchian_v2_1d_nb"
      [] ma_type = MA_LINREG -> "linreg_1d_nb"
      [] OTHER -> "sma_1d_nb"

\* the kernel that implements each code: MA_X is implemented by x_1d_nb
own_kernel(ma_type) ==
    CASE ma_type = MA_SMA -> "sma_1d_nb"
      [] ma_type = MA_EMA -> "ema_1d_nb"
      [] ma_type = MA_WMA -> "wma_1d_nb"
      [] ma_type = MA_RMA -> "rma_1d_nb"
      [] ma_type = MA_DEMA -> "dema_1d_nb"
      [] ma_type = MA_TEMA -> "tema_1d_nb"
      [] ma_type = MA_HULL -> "hull_1d_nb"
      [] ma_type = MA_ALMA -> "alma_1d_nb"
      [] ma_type = MA_JURIK -> "jurik_1d_nb"
      [] ma_type = MA_KAMA -> "kama_1d_nb"
      [] ma_type = MA_FRAMA -> "frama_1d_nb"
      [] ma_type = MA_VAMA -> "vama_1d_nb"
      [] ma_type = MA_T3 -> "t3_1d_nb"
      [] ma_type = MA_T3_EARLY -> "t3_early_1d_nb"
      [] ma_type = MA_ZLEMA -> "zlema_1d_nb"
      [] ma_type = MA_MCGINLEY -> "mcginley_1d_nb"
      [] ma_type = MA_MODULAR_FILTER -> "modular_filter_1d_nb"
      [] ma_type = MA_COVWMA -> "covwma_1d_nb"
      [] ma_type = MA_EDSMA -> "edsma_1d_nb"
      [] ma_type = MA_EHLERS_SUPER_SMOOTHER -> "ehlers_super_smoother_1d_nb"
      [] ma_type = MA_EHLERS_EMA_SMOOTHER -> "ehlers_ema_smoother_1d_nb"
      [] ma_type = MA_AHRENS -> "ahrens_1d_nb"
      [] ma_type = MA_ALEXANDER -> "alexander_1d_nb"
      [] ma_type = MA_ADXVMA -> "adxvma_1d_nb"
      [] ma_type = MA_ILRS -> "ilrs_1d_nb"
      [] ma_type = MA_LEADER_EMA -> "leader_ema_1d_nb"
      [] ma_type = MA_RMTA -> "rmta_1d_nb"
      [] ma_type = MA_DECYCLER -> "decycler_1d_nb"
      [] ma_type = MA_TRIANGULAR -> "triangular_1d_nb"
      [] ma_type = MA_XEMA -> "xema_1d_nb"
      [] ma_type = MA_DONCHIAN -> "donchian_1d_nb"
      [] ma_type = MA_DONCHIAN_V2 -> "donchian_v2_1d_nb"
      [] ma_type = MA_VWMA -> "vwma_1d_nb"
      [] ma_type = MA_LINREG -> "linreg_1d_nb"

\* the indices a kernel of the library touches: one footprint per kernel,
\* each the union over its loops of the indices an iteration touches
KernelIndices(kernel, bars, win) ==
    LET sma_indices(n, window) ==
            UNION {{i} \cup IF i >= window THEN {i - window} ELSE {} : i \in 0..(n - 1)}

        ema_indices(n, window) == {0} \cup UNION {{i, i - 1} : i \in 1..(n - 1)}

        wma_indices(n, window) ==
            UNION {{i} \cup IF i < window - 1 THEN {}
                                           ELSE {i - window + 1 + j : j \in 0..(window - 1)} : i \in 0..(n - 1)}

        rma_indices(n, window) ==
            UNION {{i} : i \in 0..(Min(window, n) - 1)} \cup
            IF n >= window THEN {window - 1} \cup UNION {{i, i - 1} : i \in window..(n - 1)} ELSE {}

        dema_indices(n, window) == ema_indices(n, window) \cup UNION {{i} : i \in 0..(n - 1)}

        tema_indices(n, window) == ema_indices(n, window) \cup UNION {{i} : i \in 0..(n - 1)}

        hull_indices(n, window) ==
            wma_indices(n, HalfWindow(window)) \cup wma_indices(n, window) \cup
            UNION {{i} : i \in 0..(n - 1)} \cup wma_indices(n, RoundSqrt(window))

        alma_indices(n, window) ==
            UNION {{i} \cup IF i < window - 1 THEN {}
                                           ELSE {i - window + 1 + j : j \in 0..(window - 1)} : i \in 0..(n - 1)}

        jurik_indices(n, window) == UNION {{i} : i \in 0..(n - 1)}

        kama_indices(n, window) ==
            {0} \cup
            UNION {{i, i - 1, Max(0, i - window)} \cup
                UNION {IF i - j - 1 >= 0 THEN {i - j, i - j - 1} ELSE {} :
                       j \in 0..(Min(i, window) - 1)} : i \in 1..(n - 1)}

        frama_indices(n, window) ==
            LET half == HalfWindow(window)
            IN  UNION {IF i < 2 * window - 1 THEN {i}
                    ELSE {i, i - 1, i - half} \cup Look(i, 0, window - 1) \cup Look(i, 0, half - 1)
                         \cup {i - half - j : j \in {k \in 0..(half - 1) : i - half - k >= 0}} : i \in 0..(n - 1)}

        vama_indices(n, window) ==
            ema_indices(n, window) \cup
            UNION {{i} \cup Look(i, 1, Min(i + 1, 10) - 1) : i \in 0..(n - 1)}

        t3_indices(n, window) == ema_indices(n, window) \cup UNION {{i} : i \in 0..(n - 1)}

        t3_early_indices(n, window) ==
            UNION {{i} \cup IF Min(i + 1, window) < 2 THEN {}
                         ELSE {i - k : k \in {j \in 0..(Min(i + 1, window) - 1) : i - j >= 0}} : i \in 0..(n - 1)}

        zlema_indices(n, window) ==
            LET lag == (window - 1) \div 2
            IN  UNION {{i} \cup IF i >= lag THEN {i - lag} ELSE {0} : i \in 0..(n - 1)}
                \cup ema_indices(n, window)

        mcginley_indices(n, window) == {0} \cup UNION {{i, i - 1} : i \in 1..(n - 1)}

        modular_filter_indices(n, window) == UNION {{i} : i \in 0..(n - 1)}

        covwma_indices(n, window) ==
            UNION {{i} \cup IF i < window - 1 THEN {}
                         ELSE Look(i, 0, window - 1) \cup
                              {IF i - j - k >= 0 THEN i - j - k ELSE 0 :
                               j \in 0..(window - 1), k \in 0..(window - 1)} : i \in 0..(n - 1)}

        ehlers_ssf_2pole_indices(n) ==
            {0} \cup (IF n > 1 THEN {1, 0} ELSE {}) \cup UNION {{i, i - 1, i - 2} : i \in 2..(n - 1)}

        ehlers_super_smoother_indices(n, window) ==
            {0} \cup (IF n > 1 THEN {1, 0} ELSE {}) \cup UNION {{i, i - 1, i - 2} : i \in 2..(n - 1)}

        \* zeros[0] and zeros[1] are written before the loops, whatever n is
        edsma_indices(n, window) ==
            {0, 1} \cup UNION {{i, i - 2} : i \in 2..(n - 1)}
            \cup {0} \cup UNION {{i, i - 1} : i \in 1..(n - 1)}
            \cup ehlers_ssf_2pole_indices(n)
            \cup {0} \cup UNION {{i} \cup Look(i, 0, Min(i + 1, window) - 1) : i \in 0..(n - 1)}

        xema_indices(n, window) == {0} \cup UNION {{i, i - 1} : i \in 1..(n - 1)}

        \* ehlers_super_smoother_1d_nb(xema_1d_nb(src, smooth_k), smooth_p = 3)
        ehlers_ema_smoother_indices(n, window) ==
            xema_indices(n, window) \cup ehlers_super_smoother_indices(n, 3)

        ahrens_indices(n, window) ==
            {0} \cup UNION {{i, i - 1} \cup IF i >= window THEN {i - window} ELSE {0} : i \in 1..(n - 1)}

        alexander_indices(n, window) ==
            UNION {{i} \cup IF window < 4 THEN {}
                         ELSE {IF i - k >= 0 THEN i - k ELSE 0 : k \in 1..(Min(i + 1, window + 1) - 1)} : i \in 0..(n - 1)}

        adxvma_indices(n, window) ==
            {0} \cup UNION {IF i = 0 THEN {0} ELSE {i, i - 1} \cup Look(i, 1, Min(i + 1, window) - 1) : i \in 0..(n - 1)}

        ilrs_indices(n, window) ==
            sma_indices(n, window) \cup
            UNION {{i} \cup IF Min(i + 1, window) < 2 THEN {} ELSE Look(i, 0, Min(i + 1, window) - 1) : i \in 0..(n - 1)}

        leader_ema_indices(n, window) == UNION {{i} : i \in 0..(n - 1)}

        rmta_indices(n, window) == {0} \cup UNION {{i} : i \in 0..(n - 1)}

        decycler_indices(n, window) ==
            UNION {{i} \cup (IF i >= 1 THEN {i - 1} ELSE {0})
                                      \cup (IF i >= 2 THEN {i - 2} ELSE {0}) : i \in 0..(n - 1)}

        \* sma(sma(src, ceil(w/2)), floor(w/2) + 1)
        triangular_indices(n, window) ==
            sma_indices(n, Max((window + 1) \div 2, 1)) \cup sma_indices(n, Max(window \div 2 + 1, 1))

        donchian_indices(n, window) ==
            UNION {{i} \cup Look(i, 1, Min(i + 1, window) - 1) : i \in 0..(n - 1)}

        donchian_v2_indices(n, window) ==
            UNION {{i} \cup Look(i, 1, Min(i + 1, window) - 1)
                                      \cup Look(i, 1, Min(i + 1, HalfWindow(window)) - 1) : i \in 0..(n - 1)}

        linreg_indices(n, window) ==
            UNION {{i} \cup IF Min(i + 1, window) < 2 THEN {}
                         ELSE {i - Min(i + 1, window) + 1 + j : j \in 0..(Min(i + 1, window) - 1)} : i \in 0..(n - 1)}

        vwma_indices(n, window) ==
            UNION {{i} \cup IF i < window - 1 THEN {} ELSE Look(i, 0, window - 1) : i \in 0..(n - 1)}
    IN
        CASE kernel = "sma_1d_nb" -> sma_indices(bars, win)
          [] kernel = "ema_1d_nb" -> ema_indices(bars, win)
          [] kernel = "wma_1d_nb" -> wma_indices(bars, win)
          [] kernel = "rma_1d_nb" -> rma_indices(bars, win)
          [] kernel = "dema_1d_nb" -> dema_indices(bars, win)
          [] kernel = "tema_1d_nb" -> tema_indices(bars, win)
          [] kernel = "hull_1d_nb" -> hull_indices(bars, win)
          [] kernel = "alma_1d_nb" -> alma_indices(bars, win)
          [] kernel = "jurik_1d_nb" -> jurik_indices(bars, win)
          [] kernel = "kama_1d_nb" -> kama_indices(bars, win)
          [] kernel = "frama_1d_nb" -> frama_indices(bars, win)
          [] kernel = "vama_1d_nb" -> vama_indices(bars, win)
          [] kernel = "t3_1d_nb" -> t3_indices(bars, win)
          [] kernel = "t3_early_1d_nb" -> t3_early_indices(bars, win)
          [] kernel = "zlema_1d_nb" -> zlema_indices(bars, win)
          [] kernel = "mcginley_1d_nb" -> mcginley_indices(bars, win)
          [] kernel = "modular_filter_1d_nb" -> modular_filter_indices(bars, win)
          [] kernel = "covwma_1d_nb" -> covwma_indices(bars, win)
          [] kernel = "edsma_1d_nb" -> edsma_indices(bars, win)
          [] kernel = "ehlers_super_smoother_1d_nb" -> ehlers_super_smoother_indices(bars, win)
          [] kernel = "ehlers_ema_smoother_1d_nb" -> ehlers_ema_smoother_indices(bars, win)
          [] kernel = "ahrens_1d_nb" -> ahrens_indices(bars, win)
          [] kernel = "alexander_1d_nb" -> alexander_indices(bars, win)
          [] kernel = "adxvma_1d_nb" -> adxvma_indices(bars, win)
          [] kernel = "ilrs_1d_nb" -> ilrs_indices(bars, win)
          [] kernel = "leader_ema_1d_nb" -> leader_ema_indices(bars, win)
          [] kernel = "rmta_1d_nb" -> rmta_indices(bars, win)
          [] kernel = "decycler_1d_nb" -> decycler_indices(bars, win)
          [] kernel = "triangular_1d_nb" -> triangular_indices(bars, win)
          [] kernel = "xema_1d_nb" -> xema_indices(bars, win)
          [] kernel = "donchian_1d_nb" -> donchian_indices(bars, win)
          [] kernel = "donchian_v2_1d_nb" -> donchian_v2_indices(bars, win)
          [] kernel = "vwma_1d_nb" -> vwma_indices(bars, win)
          [] kernel = "linreg_1d_nb" -> linreg_indices(bars, win)

\* the codes of the enumeration
MATypes == {MA_TYPE_NAMES[name] : name \in DOMAIN MA_TYPE_NAMES}

\* the kernels of the library
MAKernels == {own_kernel(t) : t \in MATypes}

----------------------------------------------------------------------------
(* The indices the indicator cores touch.  A core's arrays all have the    *)
(* length n of close; it calls universal_ma_1d_nb with its ma_type on      *)
(* them.  The model passes one window for every configurable length.       *)

stoch_indices(n, length) ==
    UNION {{i} \cup Look(i, 1, Min(i + 1, length) - 1) : i \in 0..(n - 1)}

\* out[0] is written before the loop
true_range_indices(n) == {0} \cup UNION {{i, i - 1} : i \in 1..(n - 1)}

percentile_nearest_rank_indices(n, sample_len) ==
    UNION {{i} \cup Look(i, 0, Min(i + 1, sample_len) - 1) : i \in 0..(n - 1)}

sniper_core_indices(n, pro_length, dmi_len, vol_avg_len, ma_type, data_sample) ==
    LET smooth(window) == KernelIndices(universal_ma_kernel(ma_type), n, window)
        savg_length == Max(pro_length \div 2, 1)
    IN  stoch_indices(n, 5) \cup stoch_indices(n, 8) \cup stoch_indices(n, 17)
        \cup smooth(3) \cup smooth(5)
        \cup UNION {{i} : i \in 0..(n - 1)}
        \cup smooth(pro_length)
        \cup true_range_indices(n)
        \cup UNION {{i, i - savg_length} : i \in savg_length..(n - 1)}
        \cup smooth(dmi_len)
        \cup {0} \cup UNION {{i, i - 1} : i \in 1..(n - 1)}
        \cup smooth(vol_avg_len)
        \cup UNION {{i, i - 1} : i \in 2..(n - 1)}
        \cup percentile_nearest_rank_indices(n, data_sample)
        \cup UNION {{i, i - 1, i - 2} : i \in 2..(n - 1)}

vzo_core_indices(n, vzo_length, noise_length, ma_type, data_sample) ==
    LET smooth(window) == KernelIndices(universal_ma_kernel(ma_type), n, window)
    IN  {0} \cup UNION {{i, i - 1} : i \in 1..(n - 1)}
        \cup smooth(vzo_length)
        \cup UNION {{i} : i \in 0..(n - 1)}
        \cup smooth(noise_length)
        \cup percentile_nearest_rank_indices(n, data_sample)
        \cup UNION {{i, i - 1, i - 2} : i \in 2..(n - 1)}

\* data_sample of SniperProX and VZOProX
DataSample == 55

\* every kernel: the library's, the filters, the spectral analysis, the cores
AllKernels ==
    MAKernels \cup {"bandpass_1d_nb", "goertzel_1d_nb", "spectral_analysis_1d_nb",
                    "sniper_core_1d_nb", "vzo_core_1d_nb"}

\* the discriminant a kernel takes besides the window: the method of the
\* spectral analysis, the ma_type of a core
KernelArgs(kernel) ==
    CASE kernel = "spectral_analysis_1d_nb" -> {0, 1}
      [] kernel \in {"sniper_core_1d_nb", "vzo_core_1d_nb"} -> MATypes
      [] OTHER -> {0}

\* the indices a call touches in its arrays of length n
Touched(kernel, n, window, arg) ==
    CASE kernel \in MAKernels -> KernelIndices(kernel, n, window)
      [] kernel = "bandpass_1d_nb" -> bandpass_indices(n)
      [] kernel = "goertzel_1d_nb" -> goertzel_indices(n, window)
      [] kernel = "spectral_analysis_1d_nb" -> spectral_analysis_indices(n, arg, window)
      [] kernel = "sniper_core_1d_nb" ->
            sniper_core_indices(n, window, window, window, arg, DataSample)
      [] kernel = "vzo_core_1d_nb" ->
            vzo_core_indices(n, window, window, arg, DataSample)

----------------------------------------------------------------------------
(* The spectral analysis.  The outputs of the two filters are floats that  *)
(* are not computed here: a cell the filter computes is any of a few       *)
(* integers, a cell it sets to 0.0 is 0.                                   *)

\* the columns of periods (an array of any length; DEFAULT_PERIODS has 11)
PeriodColumns == {1, 2}

\* the values of a computed filter cell
CycleValues == {-1, 0, 1}

\* what a filter can return on n bars.  bandpass_1d_nb sets out[0] and
\* out[1] to 0.0 and computes the later bars; goertzel_1d_nb sets out[i] to
\* 0.0 while min(i + 1, window_size) < 2 and computes the other bars.
FilterOutputs(method, n, window_size) ==
    {out \in [1..n -> CycleValues] :
        \A k \in 1..n :
            LET i == k - 1
                computed == IF method = 0 THEN i >= 2
                            ELSE Min(i + 1, window_size) >= 2
            IN  ~computed => out[k] = 0}

\* mutant: every column is added to the composite, flagged or not
spectral_analysis_1d_nb_AllColumns(n, filtered, composite_mask) ==
    LET cycles == [k \in 1..n |-> [c \in PeriodColumns |-> filtered[c][k]]]
        RECURSIVE added(_, _)
        added(k, c) == IF c = 0 THEN 0 ELSE added(k, c - 1) + cycles[k][c]
    IN  [cycles |-> cycles,
         composite |-> [k \in 1..n |-> added(k, Cardinality(PeriodColumns))]]

\* spectral_analysis_1d_nb on n bars, filtered[c] being the output of the
\* filter for periods[c]: the columns of cycles are the filter outputs, and
\* composite starts from zeros and adds the flagged columns in order
spectral_analysis_1d_nb(n, filtered, composite_mask) ==
    LET cycles == [k \in 1..n |-> [c \in PeriodColumns |-> filtered[c][k]]]
        RECURSIVE added(_, _)
        added(k, c) == IF c = 0 THEN 0
                       ELSE added(k, c - 1) + IF composite_mask[c] THEN cycles[k][c] ELSE 0
    IN  [cycles |-> cycles,
         composite |-> [k \in 1..n |-> added(k, Cardinality(PeriodColumns))]]

\* the ways a call can end.  A kernel whose values are modelled ends as its
\* values say; the values of the others are not tracked: they return their
\* arrays of length n (every kernel does on a series of no bars, its loops
\* having nothing to run over), and a core that smooths with the McGinley kernel can
\* also end in that kernel's ZeroDivisionError once a second bar exists.  An
\* access outside the arrays is undefined behaviour: the call can run on as
\* if nothing had happened or the process can crash.
CallOutcomes(kernel, src, window, arg) ==
    LET n == Len(src)
        outside == window >= 1 /\ ~(Touched(kernel, n, window, arg) \subseteq 0..(n - 1))
        core == kernel \in {"sniper_core_1d_nb", "vzo_core_1d_nb"}
    IN  (IF kernel \in ValueKernels /\ n >= 1
         THEN {Finish(kernel, KernelOut(kernel, src, window))}
         ELSE IF kernel = "spectral_analysis_1d_nb"
         THEN {[kind |-> "ok", kernel |-> kernel, len |-> n,
                composite_mask |-> mask, filtered |-> filtered,
                out |-> spectral_analysis_1d_nb(n, filtered, mask)] :
               mask \in [PeriodColumns -> BOOLEAN],
               filtered \in [PeriodColumns -> FilterOutputs(arg, n, window)]}
         ELSE {[kind |-> "ok", kernel |-> kernel, len |-> n]})
        \cup (IF core /\ universal_ma_kernel(arg) = "mcginley_1d_nb" /\ n >= 2
              THEN {[kind |-> "error", error |-> "ZeroDivisionError", kernel |-> kernel]}
              ELSE {})
        \cup (IF outside THEN {[kind |-> "crash", kernel |-> kernel]} ELSE {})

----------------------------------------------------------------------------
(* The entry points that take an MA type.  An ma_type argument is an       *)
(* integer code or a name: <<"int", code>> or <<"str", name>>.             *)

Code(code) == <<"int", code>>
Name(name) == <<"str", name>>
isinstance_str(ma_type) == ma_type[1] = "str"

\* a name that is not an option name
UnknownName == "Unknown Moving Average"

\* integer codes at and around the enumeration
TagInputs == MATypes \cup {-1, 34}

NameInputs == DOMAIN MA_TYPE_NAMES \cup {UnknownName}

\* the call was refused before any kernel ran
Rejected(error) == [kind |-> "error", error |-> error, kernel |-> "none"]

\* universal_ma_1d_nb: the outcomes of the kernel that serves the code
universal_ma_1d_nb(src, window, ma_type) ==
    CallOutcomes(universal_ma_kernel(ma_type), src, window, 0)

\* ma_library._resolve_ma_type
_resolve_ma_type(ma_type) ==
    IF ~isinstance_str(ma_type) THEN [kind |-> "ok", mt |-> ma_type[2]]
    ELSE IF ma_type[2] \in DOMAIN MA_TYPE_NAMES
         THEN [kind |-> "ok", mt |-> MA_TYPE_NAMES[ma_type[2]]]
         ELSE [kind |-> "error", error |-> "ValueError"]

\* sniper._resolve_ma and vzo._resolve_ma
_resolve_ma(ma_type) ==
    IF isinstance_str(ma_type)
    THEN IF ma_type[2] \in DOMAIN MA_TYPE_NAMES THEN MA_TYPE_NAMES[ma_type[2]]
         ELSE MA_JURIK
    ELSE ma_type[2]

\* SniperController.compute_signal: the loop over MA_TYPE_NAMES.items()
\* binds idx to the option name and name to the integer code, and compares
\* the code with the configured name
ma_type_idx(cfg_ma_type) ==
    LET hits == {idx \in DOMAIN MA_TYPE_NAMES :
                    ~isinstance_str(cfg_ma_type) /\ MA_TYPE_NAMES[idx] = cfg_ma_type[2]}
    IN  IF hits = {} THEN Code(0) ELSE Name(CHOOSE idx \in hits : TRUE)

EntryPoints == {"universal_ma_1d_nb", "UniversalMA", "SniperProX", "VZOProX",
                "SniperController", "VZOController"}

\* what a caller can pass: the kernel takes a code, the indicator classes a
\* code or a name, the controllers the name of their configuration
EntryInputs(entry) ==
    CASE entry = "universal_ma_1d_nb" -> {Code(t) : t \in TagInputs}
      [] entry \in {"SniperController", "VZOController"} -> {Name(name) : name \in NameInputs}
      [] OTHER -> {Code(t) : t \in TagInputs} \cup {Name(name) : name \in NameInputs}

\* the code an entry point hands to its kernel, or its refusal
EntryMAType(entry, ma_type) ==
    CASE entry = "universal_ma_1d_nb" -> [kind |-> "ok", mt |-> ma_type[2]]
      [] entry = "UniversalMA" -> _resolve_ma_type(ma_type)
      [] entry \in {"SniperProX", "VZOProX", "VZOController"} ->
            [kind |-> "ok", mt |-> _resolve_ma(ma_type)]
      [] entry = "SniperController" ->
            [kind |-> "ok", mt |-> _resolve_ma(ma_type_idx(ma_type))]

\* the kernel an entry point runs
EntryKernel(entry, mt) ==
    CASE entry \in {"universal_ma_1d_nb", "UniversalMA"} -> universal_ma_kernel(mt)
      [] entry \in {"SniperProX", "SniperController"} -> "sniper_core_1d_nb"
      [] entry \in {"VZOProX", "VZOController"} -> "vzo_core_1d_nb"

EntryOutcomes(entry, src, window, mt) ==
    IF entry \in {"universal_ma_1d_nb", "UniversalMA"}
    THEN universal_ma_1d_nb(src, window, mt)
    ELSE CallOutcomes(EntryKernel(entry, mt), src, window, mt)

----------------------------------------------------------------------------
(* The combiner's state machine *)

Init ==
    /\ WideInputs \/ WeightedInputs \/ ConfirmInputs
    /\ result = None
    /\ memo = None
    /\ sniper = Idle
    /\ vzo = Idle
    /\ ctl = None /\ kern = None /\ ma = None /\ svc = None

\* one call combiner.combine(signals); memo keeps the first call and whether
\* a call with other inputs has been made since
Combine ==
    /\ result' = combine(config, signals)
    /\ signals' = InputsAfterCombine(config, signals)
    /\ config' = ConfigAfterCombine(config, signals)
    /\ memo' = IF memo = None
               THEN [kind |-> "call", config |-> config, signals |-> signals,
                     result |-> combine(config, signals), other |-> FALSE]
               ELSE [memo EXCEPT !.other = @ \/ signals # memo.signals]
    /\ UNCHANGED <<sniper, vzo, ctl, kern, ma, svc>>

Next == Combine

Spec == Init /\ [][Next]_vars

----------------------------------------------------------------------------
(* One combiner called repeatedly by a caller that changes its inputs *)

CallConfigs ==
    {DefaultConfig(m) : m \in Modes} \cup
    {Config("weighted", <<Entry("a", 2, "secondary")>>, DefaultThreshold, DefaultWindow),
     Config("confirm", <<Entry("a", 1, "primary")>>, DefaultThreshold, 0),
     Config("confirm", <<Entry("a", 1, "primary"), Entry("b", 1, "secondary")>>,
            DefaultThreshold, 0)}

\* the mappings the caller alternates between: up to two arrays of one bar
CallMaps == MapsOver({"a", "b"}, SeqsUpTo(Values, 1))

InitCalls ==
    /\ config \in CallConfigs
    /\ signals \in CallMaps
    /\ result = None
    /\ memo = None
    /\ sniper = Idle
    /\ vzo = Idle
    /\ ctl = None /\ kern = None /\ ma = None /\ svc = None

\* the caller builds another mapping for its next call
NewSignals ==
    /\ signals' \in CallMaps \ {signals}
    /\ result' = None
    /\ UNCHANGED <<config, memo, sniper, vzo, ctl, kern, ma, svc>>

NextCalls == Combine \/ NewSignals

SpecCalls == InitCalls /\ [][NextCalls]_vars

----------------------------------------------------------------------------
(* The controllers' compute_signal *)

InitCtl ==
    /\ config = DefaultConfig("and")
    /\ signals = <<>>
    /\ result = None
    /\ memo = None
    /\ sniper = Idle
    /\ vzo = Idle
    /\ ctl = None /\ kern = None /\ ma = None /\ svc = None

\* SniperController.compute_signal: SniperProX.run yields event series of
\* the frame's length (any pattern of missing and present cells), then the
\* decision on the latest bar
SniperComputeSignal ==
    /\ \E n \in 0..MaxBars : \E mb, ms \in SeqsOfLen(Cells, n) :
        sniper' = [major_buy |-> mb, major_sell |-> ms,
                   ret |-> [kind |-> "ok", value |-> Sniper_compute_signal(mb, ms)]]
    /\ UNCHANGED <<config, signals, result, memo, vzo, ctl, kern, ma, svc>>

\* VZOController.compute_signal: the same around VZOProX.run
VZOComputeSignal ==
    /\ \E n \in 0..MaxBars : \E mb, ms \in SeqsOfLen(Cells, n) :
        vzo' = [major_buy |-> mb, major_sell |-> ms,
                ret |-> [kind |-> "ok", value |-> VZO_compute_signal(mb, ms)]]
    /\ UNCHANGED <<config, signals, result, memo, sniper, ctl, kern, ma, svc>>

NextCtl == SniperComputeSignal \/ VZOComputeSignal

SpecCtl == InitCtl /\ [][NextCtl]_vars

----------------------------------------------------------------------------
(* A controller driven by its strategy: update_processed_data, and         *)
(* compute_signal called directly on a frame                               *)

InitUpd ==
    /\ config = DefaultConfig("and")
    /\ signals = <<>>
    /\ result = None
    /\ memo = None
    /\ sniper = Idle
    /\ vzo = Idle
    /\ \E cls \in ControllerClasses : \E thr \in CompositeThresholds :
        ctl = NewController(cls, IF cls = "cycle" THEN thr ELSE 0)
    /\ kern = None /\ ma = None /\ svc = None

\* mutant: without a frame to compute on the signal becomes neutral
UpdateProcessedData_Neutral ==
    /\ \E provider \in BOOLEAN : \E candles \in 0..MaxBars :
        \E outcome \in ComputeOutcomes(ctl, IF provider THEN candles ELSE 0) :
        LET n == IF provider THEN candles ELSE 0
            sig == IF n = 0 THEN 0
                   ELSE SignalAfterUpdate(ctl._current_signal, n, outcome)
        IN  ctl' = [ctl EXCEPT
                      !._current_signal = sig,
                      !.processed_data = [k \in {"signal"} |-> sig],
                      !.computed = @ \/ n > 0,
                      !.last = IF n > 0 THEN outcome ELSE @,
                      !.update = [provider |-> provider, bars |-> n,
                                  outcome |-> IF n > 0 THEN outcome ELSE None]]
    /\ UNCHANGED <<config, signals, result, memo, sniper, vzo, kern, ma, svc>>

\* update_processed_data: the provider, if there is one, yields candles that
\* convert to a frame of n bars; without a provider the frame is empty.
\* compute_signal runs on a non-empty frame only and the signal is stored in
\* processed_data.  ctl.update records the frame and how compute_signal
\* ended.
UpdateProcessedData ==
    /\ \E provider \in BOOLEAN : \E candles \in 0..MaxBars :
        \E outcome \in ComputeOutcomes(ctl, IF provider THEN candles ELSE 0) :
        LET n == IF provider THEN candles ELSE 0
            sig == SignalAfterUpdate(ctl._current_signal, n, outcome)
        IN  ctl' = [ctl EXCEPT
                      !._current_signal = sig,
                      !.processed_data = [k \in {"signal"} |-> sig],
                      !.computed = @ \/ n > 0,
                      !.last = IF n > 0 THEN outcome ELSE @,
                      !.update = [provider |-> provider, bars |-> n,
                                  outcome |-> IF n > 0 THEN outcome ELSE None]]
    /\ UNCHANGED <<config, signals, result, memo, sniper, vzo, kern, ma, svc>>

\* compute_signal called directly (as the tests do) on a frame of n bars,
\* zero bars included; the stored signal is not touched
ComputeSignal ==
    /\ \E n \in 0..MaxBars : \E outcome \in ComputeOutcomes(ctl, n) :
        ctl' = [ctl EXCEPT !.last = outcome]
    /\ UNCHANGED <<config, signals, result, memo, sniper, vzo, kern, ma, svc>>

NextUpd == UpdateProcessedData \/ ComputeSignal

SpecUpd == InitUpd /\ [][NextUpd]_vars

----------------------------------------------------------------------------
(* The indicator cores run over a series *)

InitKern ==
    /\ config = DefaultConfig("and")
    /\ signals = <<>>
    /\ result = None
    /\ memo = None
    /\ sniper = Idle
    /\ vzo = Idle
    /\ ctl = None
    /\ \/ \E oo \in ZoneLevels : kern = SniperStart(oo)
       \/ \E b, sl, r \in VZOLevels : kern = VZOStart(b, sl, r)
       \/ kern = Fisher_start
    /\ ma = None /\ svc = None

\* bar i of sniper_core_1d_nb: the smoothed stochastics and the Fisher value
\* of the bar arrive (f3[0] = 0), then the counter and the events of the bar
SniperBar ==
    /\ kern.core = "sniper"
    /\ kern.i + 1 < MaxKernBars
    /\ \E k \in KPairs : \E f \in F3Values :
        LET i == kern.i + 1
            f3 == Append(kern.f3, IF i = 0 THEN 0 ELSE f)
            SC_i == IF i < 2 THEN 0
                    ELSE SC_step(Back(kern.SC, 0), k[1], k[2], kern.k1v, kern.k2v)
        IN  kern' = [kern EXCEPT
                       !.i = i, !.k1v = k[1], !.k2v = k[2],
                       !.f3 = LastCells(f3, 3),
                       !.SC = LastCells(Append(kern.SC, SC_i), 2),
                       !.events = IF i < 2 THEN NoEvents
                                  ELSE Sniper_events(Back(f3, 0), Back(f3, 1), Back(f3, 2),
                                                     SC_i, kern.overbought_oversold)]
    /\ UNCHANGED <<config, signals, result, memo, sniper, vzo, ctl, ma, svc>>

\* bar i of vzo_core_1d_nb: the oscillator value of the bar arrives, then
\* the events of the bar
VZOBar ==
    /\ kern.core = "vzo"
    /\ kern.i + 1 < MaxKernBars
    /\ \E v \in VZOCells :
        LET i == kern.i + 1
            tv == Append(kern.turbo_vzo, v)
        IN  kern' = [kern EXCEPT
                       !.i = i,
                       !.turbo_vzo = LastCells(tv, 3),
                       !.events = IF i < 2 THEN NoEvents
                                  ELSE VZO_events(Back(tv, 0), Back(tv, 1), Back(tv, 2),
                                                  kern.minor_buy_val, kern.minor_sell_val,
                                                  kern.minor_major_range)]
    /\ UNCHANGED <<config, signals, result, memo, sniper, vzo, ctl, ma, svc>>

\* bar i of the Fisher loop of sniper_core_1d_nb: f3[0] stays 0.0, a later
\* bar transforms the k3_raw of the bar
FisherBar ==
    /\ kern.core = "fisher"
    /\ kern.i + 1 < MaxKernBars
    /\ \E k3_raw \in K3Raw :
        LET i == kern.i + 1
            step == Fisher_step(k3_raw, kern.f3)
        IN  kern' = IF i = 0 THEN [kern EXCEPT !.i = i, !.f3 = R(0)]
                    ELSE [kern EXCEPT !.i = i, !.k3v = step.k3v, !.k = step.k,
                                      !.raw = step.raw, !.f3 = step.f3]
    /\ UNCHANGED <<config, signals, result, memo, sniper, vzo, ctl, ma, svc>>

NextKern == SniperBar \/ VZOBar \/ FisherBar

SpecKern == InitKern /\ [][NextKern]_vars

----------------------------------------------------------------------------
(* Calls into the moving-average library *)

InitMA ==
    /\ config = DefaultConfig("and")
    /\ signals = <<>>
    /\ result = None
    /\ memo = None
    /\ sniper = Idle
    /\ vzo = Idle
    /\ ctl = None /\ kern = None /\ svc = None
    /\ \E src \in SrcSeries(MaxSrc) \cup {<<>>} : \E window \in MAWindows :
        ma = [src |-> src, window |-> window, entry |-> "none", arg |-> 0,
              ma_type |-> Code(0), ret |-> None]

\* a kernel called directly on the series; the kernels whose values are not
\* tracked are called with a window >= 1
CallKernel ==
    /\ ma.ret = None
    /\ \E kernel \in AllKernels : \E arg \in KernelArgs(kernel) :
        /\ (kernel \in ValueKernels /\ ma.src # <<>>) \/ ma.window >= 1
        /\ \E ret \in CallOutcomes(kernel, ma.src, ma.window, arg) :
            ma' = [ma EXCEPT !.entry = kernel, !.arg = arg, !.ret = ret]
    /\ UNCHANGED <<config, signals, result, memo, sniper, vzo, ctl, kern, svc>>

\* an entry point called with an MA type; those whose values are not
\* tracked are called with a window >= 1
CallEntry ==
    /\ ma.ret = None
    /\ \E entry \in EntryPoints : \E ma_type \in EntryInputs(entry) :
        LET r == EntryMAType(entry, ma_type)
        IN  IF r.kind = "error"
            THEN ma' = [ma EXCEPT !.entry = entry, !.ma_type = ma_type,
                                  !.ret = Rejected(r.error)]
            ELSE /\ (EntryKernel(entry, r.mt) \in ValueKernels /\ ma.src # <<>>)
                    \/ ma.window >= 1
                 /\ \E ret \in EntryOutcomes(entry, ma.src, ma.window, r.mt) :
                     ma' = [ma EXCEPT !.entry = entry, !.ma_type = ma_type,
                                      !.arg = r.mt, !.ret = ret]
    /\ UNCHANGED <<config, signals, result, memo, sniper, vzo, ctl, kern, svc>>

NextMA == CallKernel \/ CallEntry

SpecMA == InitMA /\ [][NextMA]_vars

----------------------------------------------------------------------------
(* BotDeployer.deploy_bot.  The call is a coroutine: it runs up to the     *)
(* await of a POST, the API (or the network) answers, and it runs on.      *)

\* INDICATOR_CONTROLLER_MAP
INDICATOR_CONTROLLER_MAP ==
    [name \in {"SniperProX", "VZOProX", "SpectralAnalysis"} |->
        CASE name = "SniperProX" -> "vbt_sniper"
          [] name = "VZOProX" -> "vbt_vzo"
          [] name = "SpectralAnalysis" -> "vbt_cycle"]

\* the indicator names a BotDeploymentConfig can hold (its validator lets
\* every string through)
IndicatorNames == DOMAIN INDICATOR_CONTROLLER_MAP \cup {"AstroLib", ""}

\* _indicator_to_controller_type
_indicator_to_controller_type(indicator_name) ==
    IF indicator_name \notin DOMAIN INDICATOR_CONTROLLER_MAP
    THEN [kind |-> "raise", error |-> "ValueError"]
    ELSE [kind |-> "return", value |-> INDICATOR_CONTROLLER_MAP[indicator_name]]

\* what awaiting self._client.post can give: a response (its status code,
\* whether its content-type starts with application/json, whether its body
\* parses as JSON), httpx.ConnectError, or another httpx exception
PostOutcomes ==
    [kind : {"response"}, status_code : {200, 201, 204, 400, 500},
     json_type : BOOLEAN, json_body : BOOLEAN]
    \cup {[kind |-> "raise", error |-> e] : e \in {"ConnectError", "ReadTimeout"}}

\* deploy_bot from the point where the POST it awaited has ended in outcome
\* (call.pc tells which of the two POSTs) to its next await or its end;
\* response.json() raises when the body is not JSON
deploy_bot(call, outcome) ==
    LET sent == Append(call.sent, outcome)
        ended(end) == [call EXCEPT !.sent = sent, !.pc = "done", !.end = end]
        json == IF outcome.json_body
                THEN [kind |-> "return", value |-> "json"]
                ELSE [kind |-> "raise", error |-> "JSONDecodeError"]
        DeploymentError(status_code) ==
            [kind |-> "raise", error |-> "DeploymentError", status_code |-> status_code]
    IN  IF outcome.kind = "raise"
        THEN IF outcome.error # "ConnectError" THEN ended(outcome)
             ELSE IF call.pc = "post1"
             THEN [call EXCEPT !.sent = sent, !.pc = "post2"]
             ELSE ended(DeploymentError(0))
        ELSE IF outcome.status_code \in {200, 201} THEN ended(json)
        ELSE IF outcome.json_type /\ json.kind = "raise" THEN ended(json)
        ELSE ended(DeploymentError(outcome.status_code))

InitDeploy ==
    /\ config = DefaultConfig("and")
    /\ signals = <<>>
    /\ result = None
    /\ memo = None
    /\ sniper = Idle
    /\ vzo = Idle
    /\ ctl = None /\ kern = None /\ ma = None
    /\ svc = [pc |-> "idle", indicator |-> "", sent |-> <<>>, end |-> None]

\* a call of deploy_bot up to its first await: the controller type is looked
\* up and the payload built
DeployBot ==
    /\ svc.pc \in {"idle", "done"}
    /\ \E name \in IndicatorNames :
        LET controller_type == _indicator_to_controller_type(name)
        IN  svc' = IF controller_type.kind = "raise"
                   THEN [pc |-> "done", indicator |-> name, sent |-> <<>>,
                         end |-> controller_type]
                   ELSE [pc |-> "post1", indicator |-> name, sent |-> <<>>,
                         end |-> None]
    /\ UNCHANGED <<config, signals, result, memo, sniper, vzo, ctl, kern, ma>>

\* the first POST ends
FirstPost ==
    /\ svc.pc = "post1"
    /\ \E outcome \in PostOutcomes : svc' = deploy_bot(svc, outcome)
    /\ UNCHANGED <<config, signals, result, memo, sniper, vzo, ctl, kern, ma>>

\* the POST of the retry ends
SecondPost ==
    /\ svc.pc = "post2"
    /\ \E outcome \in PostOutcomes : svc' = deploy_bot(svc, outcome)
    /\ UNCHANGED <<config, signals, result, memo, sniper, vzo, ctl, kern, ma>>

NextDeploy == DeployBot \/ FirstPost \/ SecondPost

SpecDeploy == InitDeploy /\ [][NextDeploy]_vars

----------------------------------------------------------------------------
(* DataUpdaterService.  run() and the poll loops are coroutines of one     *)
(* event loop: each runs without interruption from one await to the next.  *)
(* stop() is the handler of SIGINT/SIGTERM, run by the same loop.          *)

\* the pairs of self.symbols x self.timeframes, one poll loop each
Pairs == {<<"X:BTCUSD", "1m">>, <<"X:BTCUSD", "1h">>}

InitUpdater ==
    /\ config = DefaultConfig("and")
    /\ signals = <<>>
    /\ result = None
    /\ memo = None
    /\ sniper = Idle
    /\ vzo = Idle
    /\ ctl = None /\ kern = None /\ ma = None
    /\ svc = [run |-> "new", _running |-> FALSE, stop |-> FALSE,
              loop |-> [p \in Pairs |-> [pc |-> "none", last |-> "none"]]]

\* run() up to its first await: the flag is set, the signal handlers are
\* registered and the startup backfill is handed to a thread
Run ==
    /\ svc.run = "new"
    /\ svc' = [svc EXCEPT !.run = "backfill", !._running = TRUE]
    /\ UNCHANGED <<config, signals, result, memo, sniper, vzo, ctl, kern, ma>>

\* the backfill ends (it logs the failure of a pair and goes on): run()
\* creates one task per pair and awaits them all
Backfill ==
    /\ svc.run = "backfill"
    /\ svc' = [svc EXCEPT !.run = "gather",
                          !.loop = [p \in Pairs |-> [pc |-> "while", last |-> "none"]]]
    /\ UNCHANGED <<config, signals, result, memo, sniper, vzo, ctl, kern, ma>>

\* mutant: the loop does not read the flag (while True)
PollLoop_Forever(p) ==
    /\ svc.loop[p].pc = "while"
    /\ svc' = [svc EXCEPT !.loop[p].pc = "update"]
    /\ UNCHANGED <<config, signals, result, memo, sniper, vzo, ctl, kern, ma>>

\* _poll_loop at `while self._running`: another cycle hands _update_once to
\* a thread, or the loop ends
PollLoop(p) ==
    /\ svc.loop[p].pc = "while"
    /\ svc' = [svc EXCEPT !.loop[p].pc = IF svc._running THEN "update" ELSE "done"]
    /\ UNCHANGED <<config, signals, result, memo, sniper, vzo, ctl, kern, ma>>

\* the thread of _update_once ends: the update succeeded, or it failed and
\* _update_once logged the exception, or the hand-over to the thread raised;
\* the loop sleeps for the interval, or for 30 seconds after an exception
UpdateOnce(p) ==
    /\ svc.loop[p].pc = "update"
    /\ \E outcome \in {"ok", "failed", "raised"} :
        svc' = [svc EXCEPT !.loop[p] =
                   [pc |-> IF outcome = "raised" THEN "sleep(30)" ELSE "sleep(interval)",
                    last |-> outcome]]
    /\ UNCHANGED <<config, signals, result, memo, sniper, vzo, ctl, kern, ma>>

\* the sleep of a loop ends
Sleep(p) ==
    /\ svc.loop[p].pc \in {"sleep(interval)", "sleep(30)"}
    /\ svc' = [svc EXCEPT !.loop[p].pc = "while"]
    /\ UNCHANGED <<config, signals, result, memo, sniper, vzo, ctl, kern, ma>>

\* every task has ended: asyncio.gather returns and so does run()
Gather ==
    /\ svc.run = "gather"
    /\ \A p \in Pairs : svc.loop[p].pc = "done"
    /\ svc' = [svc EXCEPT !.run = "returned"]
    /\ UNCHANGED <<config, signals, result, memo, sniper, vzo, ctl, kern, ma>>

\* stop(), at any time; svc.stop records a stop made while run() is active
Stop ==
    /\ svc' = [svc EXCEPT !._running = FALSE,
                          !.stop = @ \/ svc.run \in {"backfill", "gather"}]
    /\ UNCHANGED <<config, signals, result, memo, sniper, vzo, ctl, kern, ma>>

NextUpdater ==
    \/ Run \/ Backfill \/ Gather \/ Stop
    \/ \E p \in Pairs : PollLoop(p) \/ UpdateOnce(p) \/ Sleep(p)

SpecUpdater == InitUpdater /\ [][NextUpdater]_vars

\* the event loop runs every coroutine that can go on, and every update,
\* sleep and backfill ends; stop() need never be called
FairUpdater ==
    /\ WF_vars(Run) /\ WF_vars(Backfill) /\ WF_vars(Gather)
    /\ \A p \in Pairs : WF_vars(PollLoop(p)) /\ WF_vars(UpdateOnce(p)) /\ WF_vars(Sleep(p))

SpecUpdaterFair == SpecUpdater /\ FairUpdater

----------------------------------------------------------------------------
(* The engine singleton of src/data/db.py.  get_engine is plain Python     *)
(* called from the threads of asyncio.to_thread: a thread can be suspended *)
(* between any two of its steps.  An engine is a number from 1, the module *)
(* global _engine is 0 for None.                                           *)

\* the threads that call get_engine
Threads == {"poll-1", "poll-2", "poll-3"}

InitEngine ==
    /\ config = DefaultConfig("and")
    /\ signals = <<>>
    /\ result = None
    /\ memo = None
    /\ sniper = Idle
    /\ vzo = Idle
    /\ ctl = None /\ kern = None /\ ma = None
    /\ svc = [_engine |-> 0, created |-> 0, returned |-> {}, raced |-> FALSE,
              pc |-> [t \in Threads |-> "idle"]]

\* get_engine, line 25: _engine is read; the call goes on to return it, or,
\* finding None, to create an engine
GetEngine(t) ==
    /\ svc.pc[t] = "idle"
    /\ svc' = [svc EXCEPT
                 !.pc[t] = IF svc._engine # 0 THEN "return" ELSE "create",
                 !.raced = @ \/ (svc._engine = 0 /\ \E u \in Threads : svc.pc[u] = "create")]
    /\ UNCHANGED <<config, signals, result, memo, sniper, vzo, ctl, kern, ma>>

\* lines 28-38: sa.create_engine makes a new engine and _engine is assigned
CreateEngine(t) ==
    /\ svc.pc[t] = "create"
    /\ svc' = [svc EXCEPT !._engine = svc.created + 1, !.created = @ + 1,
                          !.pc[t] = "return"]
    /\ UNCHANGED <<config, signals, result, memo, sniper, vzo, ctl, kern, ma>>

\* `return _engine`: the global is read and returned
ReturnEngine(t) ==
    /\ svc.pc[t] = "return"
    /\ svc' = [svc EXCEPT !.returned = @ \cup {svc._engine}, !.pc[t] = "idle"]
    /\ UNCHANGED <<config, signals, result, memo, sniper, vzo, ctl, kern, ma>>

\* reset_engine, called while no get_engine call is in progress: the engine
\* is disposed of and _engine is None again; what was created and returned
\* is counted from the last reset
ResetEngine ==
    /\ \A t \in Threads : svc.pc[t] = "idle"
    /\ svc' = [svc EXCEPT !._engine = 0, !.created = 0, !.returned = {},
                          !.raced = FALSE]
    /\ UNCHANGED <<config, signals, result, memo, sniper, vzo, ctl, kern, ma>>

NextEngine ==
    \/ ResetEngine
    \/ \E t \in Threads : GetEngine(t) \/ CreateEngine(t) \/ ReturnEngine(t)

SpecEngine == InitEngine /\ [][NextEngine]_vars

----------------------------------------------------------------------------
(* Claims about SignalCombiner.combine *)

Called == result # None
Valid == DOMAIN signals # {} /\ EqualLengths(signals)

\* the bars of a valid input mapping
Bars == 1..NBars(signals)

AllAre(v, i) == \A name \in DOMAIN signals : signals[name][i] = v
SomeIs(v, i) == \E name \in DOMAIN signals : signals[name][i] = v

\* the AND-mode array as the contract states it
AndArray == [i \in Bars |-> IF AllAre(1, i) THEN 1 ELSE IF AllAre(-1, i) THEN -1 ELSE 0]

\* C1: in AND mode, for a non-empty mapping of equal-length arrays, the
\* output at bar i is 1 iff every input is 1 at i, -1 iff every input is -1
\* at i, and 0 in every other case.
C1_AndMode ==
    (Called /\ Valid /\ config.mode = "and") =>
        /\ result.kind = "ok"
        /\ DOMAIN result.arr = Bars
        /\ \A i \in Bars :
            /\ result.arr[i] = 1 <=> AllAre(1, i)
            /\ result.arr[i] = -1 <=> AllAre(-1, i)
            /\ result.arr[i] = 0 <=> (~AllAre(1, i) /\ ~AllAre(-1, i))

C1_Witness ==
    /\ Called /\ config.mode = "and" /\ result.kind = "ok"
    /\ DOMAIN signals = {"a", "b", "c"}
    /\ result.arr = <<-1>>

\* C2: in OR mode the output at a bar is 1 if some input is 1 and none is
\* -1, -1 if some input is -1 and none is 1, 0 if no input is non-zero, and
\* the sign of the sum of all inputs when both polarities are present.
C2_OrMode ==
    (Called /\ Valid /\ config.mode = "or") =>
        /\ result.kind = "ok"
        /\ DOMAIN result.arr = Bars
        /\ \A i \in Bars :
            LET total == SetSum([name \in DOMAIN signals |-> signals[name][i]], DOMAIN signals)
            IN  /\ (SomeIs(1, i) /\ ~SomeIs(-1, i)) => result.arr[i] = 1
                /\ (SomeIs(-1, i) /\ ~SomeIs(1, i)) => result.arr[i] = -1
                /\ (\A name \in DOMAIN signals : signals[name][i] = 0) => result.arr[i] = 0
                /\ (SomeIs(1, i) /\ SomeIs(-1, i)) => result.arr[i] = Sign(total)

\* a conflict bar decided by the majority
C2_Witness ==
    /\ Called /\ config.mode = "or" /\ result.kind = "ok"
    /\ Len(result.arr) = 1
    /\ SomeIs(1, 1) /\ SomeIs(-1, 1)
    /\ result.arr[1] = -1

\* the weight the contract gives a name: the (last) entry of config.indicators
\* that lists it, 1.0 when no entry does
ListedWeight(name) ==
    LET inds == config.indicators
        at   == {k \in DOMAIN inds : inds[k].name = name}
    IN  IF at = {} THEN 1
        ELSE inds[CHOOSE k \in at : \A m \in at : m <= k].weight

ClaimTotal == SetSum([name \in DOMAIN signals |-> ListedWeight(name)], DOMAIN signals)
ClaimSum(i) ==
    SetSum([name \in DOMAIN signals |-> ListedWeight(name) * signals[name][i]], DOMAIN signals)

\* sum/total >= num/den and sum/total <= -num/den for a total of either sign
QuotientGE(sum, total, thr) ==
    IF total > 0 THEN sum * thr[2] >= thr[1] * total ELSE sum * thr[2] <= thr[1] * total
QuotientLE(sum, total, thr) ==
    IF total > 0 THEN sum * thr[2] <= thr[1] * total ELSE sum * thr[2] >= thr[1] * total

\* C3 as stated: in WEIGHTED mode the score of a bar is the weighted sum
\* divided by the total weight (whatever the total weight is), and the
\* output is 1 if score >= weighted_threshold, otherwise -1 if
\* score <= -weighted_threshold, otherwise 0.  (Stated where the quotient
\* exists, that is for a total weight other than 0.)
C3_Original ==
    (Called /\ Valid /\ config.mode = "weighted" /\ ClaimTotal # 0) =>
        /\ result.kind = "ok"
        /\ DOMAIN result.arr = Bars
        /\ \A i \in Bars :
            result.arr[i] =
                IF QuotientGE(ClaimSum(i), ClaimTotal, config.weighted_threshold) THEN 1
                ELSE IF QuotientLE(ClaimSum(i), ClaimTotal, FracNeg(config.weighted_threshold))
                     THEN -1
                ELSE 0

\* C3 (amended): in WEIGHTED mode the score of a bar is the weighted sum
\* divided by the total weight when the total weight is positive and the
\* undivided weighted sum when it is zero or negative; a name's weight is
\* that of the last config entry listing it and 1.0 when none does; the
\* output is 1 if score >= weighted_threshold, otherwise -1 if
\* score <= -weighted_threshold, otherwise 0.
C3_Weighted ==
    (Called /\ Valid /\ config.mode = "weighted") =>
        /\ result.kind = "ok"
        /\ DOMAIN result.arr = Bars
        /\ \A i \in Bars :
            LET score == IF ClaimTotal > 0 THEN <<ClaimSum(i), ClaimTotal>>
                         ELSE <<ClaimSum(i), 1>>
            IN  result.arr[i] =
                    IF FracGE(score, config.weighted_threshold) THEN 1
                    ELSE IF FracLE(score, FracNeg(config.weighted_threshold)) THEN -1
                    ELSE 0

\* a bar scored with a negative total weight, one listed and one unlisted name
C3_Witness ==
    /\ Called /\ config.mode = "weighted" /\ result.kind = "ok"
    /\ DOMAIN signals = {"a", "b"}
    /\ {config.indicators[k].name : k \in DOMAIN config.indicators} = {"a"}
    /\ ClaimTotal < 0
    /\ Len(result.arr) = 1 /\ result.arr[1] = -1

\* the first config entry with role primary, when there is one
HasPrimary == \E k \in DOMAIN config.indicators : config.indicators[k].role = "primary"
FirstPrimary ==
    LET inds == config.indicators
        k == CHOOSE k \in DOMAIN inds :
                /\ inds[k].role = "primary"
                /\ \A m \in DOMAIN inds : inds[m].role = "primary" => k <= m
    IN  inds[k].name

\* the secondary entries that name an input array
Secondaries ==
    {config.indicators[k].name :
        k \in {m \in DOMAIN config.indicators : config.indicators[m].role = "secondary"}}
    \cap DOMAIN signals

\* C4: in CONFIRM mode with the first primary entry naming an input array P:
\* without a secondary entry naming an input array the output is P; otherwise
\* output[i] = P[i] when P[i] # 0 and some secondary array holds P[i] at a
\* bar j with |i - j| <= confirm_window, 0 <= j < n, and 0 in every other case.
C4_Confirm ==
    (Called /\ Valid /\ config.mode = "confirm" /\ HasPrimary
        /\ FirstPrimary \in DOMAIN signals) =>
        LET P == signals[FirstPrimary]
            w == config.confirm_window
        IN  /\ result.kind = "ok"
            /\ Secondaries = {} => result.arr = P
            /\ Secondaries # {} =>
                /\ DOMAIN result.arr = Bars
                /\ \A i \in Bars :
                    result.arr[i] =
                        IF /\ P[i] # 0
                           /\ \E name \in Secondaries : \E j \in Bars :
                                /\ i - j <= w /\ j - i <= w
                                /\ signals[name][j] = P[i]
                        THEN P[i]
                        ELSE 0

\* C5: CONFIRM mode returns the AND-mode result over all input arrays when
\* no config entry has role primary, or the first primary entry's name is
\* not a key of the input mapping.
C5_ConfirmFallback ==
    (Called /\ Valid /\ config.mode = "confirm"
        /\ (~HasPrimary \/ FirstPrimary \notin DOMAIN signals)) =>
        /\ result.kind = "ok"
        /\ result.arr = AndArray

\* the primary is listed but absent, and AND over the inputs is not neutral
C5_Witness ==
    /\ Called /\ config.mode = "confirm" /\ result.kind = "ok"
    /\ HasPrimary /\ FirstPrimary \notin DOMAIN signals
    /\ DOMAIN signals # {}
    /\ \E i \in DOMAIN result.arr : result.arr[i] = 1

\* C6: combine on an empty mapping fails with the "No signals" error in
\* every mode and returns no array.
C6_EmptyMapping ==
    (Called /\ DOMAIN signals = {}) =>
        /\ result.kind = "error"
        /\ result.error = "No signals provided"

C6_Witness ==
    /\ Called /\ DOMAIN signals = {}
    /\ config.mode = "confirm" /\ HasPrimary
    /\ result.kind = "error"

\* C7: combine on a mapping whose arrays do not all have the same length
\* fails with the length-mismatch error naming every array's length, in
\* every mode and instead of any mode-specific result.
C7_LengthMismatch ==
    (Called /\ \E x, y \in DOMAIN signals : Len(signals[x]) # Len(signals[y])) =>
        /\ result.kind = "error"
        /\ result.error = "Signal arrays have different lengths"
        /\ result.lengths = [name \in DOMAIN signals |-> Len(signals[name])]

C7_Witness ==
    /\ Called /\ config.mode = "weighted"
    /\ DOMAIN signals = {"a", "b"}
    /\ Len(signals["a"]) = 0 /\ Len(signals["b"]) = 1
    /\ result.kind = "error"

\* every input array holds only values of {-1, 0, 1}
InputsInRange ==
    \A name \in DOMAIN signals : \A i \in DOMAIN signals[name] :
        signals[name][i] \in {-1, 0, 1}

\* C8: in every mode and configuration, when all inputs hold only values of
\* {-1, 0, 1}, the returned array has the inputs' length and holds only
\* values of {-1, 0, 1}.
C8_OutputRange ==
    (Called /\ result.kind = "ok" /\ InputsInRange) =>
        /\ \A name \in DOMAIN signals : Len(result.arr) = Len(signals[name])
        /\ \A i \in DOMAIN result.arr : result.arr[i] \in {-1, 0, 1}

\* a weighted sum of magnitude above 1 thresholded to a signal
C8_Witness ==
    /\ Called /\ result.kind = "ok" /\ config.mode = "weighted"
    /\ Len(result.arr) = 1
    /\ ClaimSum(1) < -1 /\ result.arr[1] = -1

----------------------------------------------------------------------------
(* Claims about the controllers *)

\* the signal the contract derives from the latest bar of the event series
LatestSignal(c) ==
    LET n == Len(c.major_buy)
    IN  IF n > 0 /\ c.major_buy[n] # NaN THEN 1
        ELSE IF n > 0 /\ c.major_sell[n] # NaN THEN -1
        ELSE 0

\* C10: SniperController.compute_signal and VZOController.compute_signal
\* return 1 when major_buy is non-missing at the latest bar, otherwise -1
\* when major_sell is non-missing at the latest bar, otherwise 0; with both
\* present the result is 1.
C10_LatestBar ==
    /\ sniper.ret # None => sniper.ret.value = LatestSignal(sniper)
    /\ vzo.ret # None => vzo.ret.value = LatestSignal(vzo)

\* both controllers saw a latest bar with both events present
C10_Witness ==
    /\ sniper.ret # None /\ vzo.ret # None
    /\ Len(sniper.major_buy) = MaxBars /\ Len(vzo.major_buy) = MaxBars
    /\ sniper.major_buy[MaxBars] = <<0>> /\ sniper.major_sell[MaxBars] # NaN
    /\ vzo.major_buy[MaxBars] = <<0>> /\ vzo.major_sell[MaxBars] # NaN
    /\ sniper.ret.value = 1 /\ vzo.ret.value = 1

\* C11: CycleController.compute_signal returns 1 when the latest composite
\* value is above composite_threshold, -1 when it is below, 0 when it is
\* equal, and 0 when the composite is empty or its latest value is NaN.
C11_CycleSignal ==
    (ctl.cls = "cycle" /\ ctl.last # None /\ ctl.last.kind = "ok") =>
        LET comp == ctl.last.composite
            n == Len(comp)
        IN  /\ (n = 0 \/ comp[n] = NaN) => ctl.last.value = 0
            /\ (n > 0 /\ comp[n] # NaN) =>
                /\ comp[n][1] > ctl.composite_threshold => ctl.last.value = 1
                /\ comp[n][1] < ctl.composite_threshold => ctl.last.value = -1
                /\ comp[n][1] = ctl.composite_threshold => ctl.last.value = 0

\* a cycle controller whose latest composite value sits exactly on a
\* non-default threshold, after an earlier bar above it
C11_Witness ==
    /\ ctl.cls = "cycle" /\ ctl.composite_threshold = -1
    /\ ctl.last # None /\ ctl.last.kind = "ok"
    /\ ctl.last.composite = <<(<<1>>), (<<-1>>)>>
    /\ ctl.last.value = 0

\* C12: for every controller, get_signal() returns 0 before any computation,
\* and after any sequence of update_processed_data calls (whatever the
\* candles, also when compute_signal raises) it returns -1, 0 or 1.
C12_SignalRange ==
    /\ ~ctl.computed => get_signal(ctl) = 0
    /\ get_signal(ctl) \in {-1, 0, 1}
    /\ "signal" \in DOMAIN ctl.processed_data =>
           ctl.processed_data["signal"] = get_signal(ctl)

\* a controller that held a non-neutral signal and went back to 0 because
\* its latest compute_signal raised
C12_Witness ==
    /\ ctl.computed /\ ctl.last = [kind |-> "error"]
    /\ get_signal(ctl) = 0
    /\ ctl.processed_data = [k \in {"signal"} |-> 0]

----------------------------------------------------------------------------
(* Claims about the indicator cores *)

\* a bar of the Sniper core has been computed
SniperAt == kern.core = "sniper" /\ kern.i >= 0

\* C13: in the Sniper kernel, at every bar i, major_buy is non-missing iff
\* minor_buy is non-missing and SC[i] > 1, and major_sell is non-missing iff
\* minor_sell is non-missing and SC[i] < -1; minor_buy fires exactly on an
\* upward turning point of the Fisher series (sign of f3[i]-f3[i-1] greater
\* than sign of f3[i-1]-f3[i-2]) with f3[i] < -overbought_oversold,
\* minor_sell symmetrically with f3[i] > overbought_oversold, and no event
\* fires at bars 0 and 1.
C13_SniperEvents ==
    SniperAt =>
        LET e == kern.events
            SC_i == Back(kern.SC, 0)
        IN  /\ e.major_buy # NaN <=> (e.minor_buy # NaN /\ SC_i > 1)
            /\ e.major_sell # NaN <=> (e.minor_sell # NaN /\ SC_i < -1)
            /\ kern.i < 2 => e = NoEvents
            /\ kern.i >= 2 =>
                LET up == Sign(Back(kern.f3, 0) - Back(kern.f3, 1))
                    was == Sign(Back(kern.f3, 1) - Back(kern.f3, 2))
                IN  /\ e.minor_buy # NaN <=>
                        (up > was /\ Back(kern.f3, 0) < -kern.overbought_oversold)
                    /\ e.minor_sell # NaN <=>
                        (up < was /\ Back(kern.f3, 0) > kern.overbought_oversold)

\* a bar with a major buy (the counter has reached 2) under the usual
\* positive zone level
C13_Witness ==
    /\ SniperAt /\ kern.overbought_oversold = 1
    /\ kern.events.major_buy # NaN /\ kern.events.minor_buy # NaN
    /\ Back(kern.SC, 0) = 2

\* C14: in the Sniper kernel and in the VZO kernel no bar has both a buy
\* event and a sell event of the same rank, for every input series and
\* every threshold setting.
C14_NoBuyAndSell ==
    (kern.core \in {"sniper", "vzo"} /\ kern.i >= 0) =>
        /\ ~(kern.events.major_buy # NaN /\ kern.events.major_sell # NaN)
        /\ ~(kern.events.minor_buy # NaN /\ kern.events.minor_sell # NaN)

\* a VZO bar with a buy event whose value also lies above the sell levels
\* (the levels overlap: buy below 1, sell above -1, major range -1)
C14_Witness ==
    /\ kern.core = "vzo" /\ kern.i >= 2
    /\ kern.minor_buy_val = 1 /\ kern.minor_sell_val = -1 /\ kern.minor_major_range = -1
    /\ Back(kern.turbo_vzo, 0) = <<0>>
    /\ kern.events.minor_buy # NaN /\ kern.events.major_buy # NaN

\* C15: SC[0] = SC[1] = 0 and for every bar i >= 2, if k2v[i] > 0 then
\* SC[i] = min(SC[i-1], 0) + d with d in {-1, 0} (so SC[i] <= 0), otherwise
\* SC[i] = max(SC[i-1], 0) + d with d in {0, 1} (so SC[i] >= 0); the clamp
\* is applied before the increment and |SC| grows by at most 1 per bar.
C15_Counter ==
    SniperAt =>
        LET SC_i == Back(kern.SC, 0)
        IN  /\ kern.i < 2 => SC_i = 0
            /\ kern.i >= 2 =>
                LET SC_prev == Back(kern.SC, 1)
                    abs(x) == IF x < 0 THEN -x ELSE x
                IN  /\ Gt(kern.k2v, <<0>>) =>
                        /\ \E d \in {-1, 0} : SC_i = Min(SC_prev, 0) + d
                        /\ SC_i <= 0
                    /\ ~Gt(kern.k2v, <<0>>) =>
                        /\ \E d \in {0, 1} : SC_i = Max(SC_prev, 0) + d
                        /\ SC_i >= 0
                    /\ abs(SC_i) <= abs(SC_prev) + 1

\* the counter stood at 1 and k2v turned positive: it is reset to 0
C15_Witness ==
    /\ SniperAt /\ kern.i >= 2
    /\ Back(kern.SC, 1) = 1 /\ Gt(kern.k2v, <<0>>)
    /\ Back(kern.SC, 0) = 0

----------------------------------------------------------------------------
(* Claims about the moving-average library *)

\* a kernel was called directly on a series of bars with a window >= 1
KernelCalled(kernels) ==
    ma.ret # None /\ ma.entry \in kernels /\ ma.window >= 1 /\ ma.src # <<>>

\* C16: warm-up of the moving-average kernels, for a finite series and a
\* window w >= 1: the SMA, WMA and ALMA outputs are NaN at index i exactly
\* when i < w-1 and defined at every later index; the EMA, Jurik, KAMA and
\* McGinley outputs have out[0] = src[0] and are defined at every index
\* from 0.
C16_WarmUp ==
    /\ KernelCalled({"sma_1d_nb", "wma_1d_nb", "alma_1d_nb"}) =>
        /\ ma.ret.kind = "ok"
        /\ \A i \in 0..(Len(ma.src) - 1) :
               isnan(ma.ret.out[i + 1]) <=> i < ma.window - 1
    /\ KernelCalled({"ema_1d_nb", "jurik_1d_nb", "kama_1d_nb", "mcginley_1d_nb"}) =>
        /\ ma.ret.kind = "ok"
        /\ ma.ret.out[1] = ma.src[1]
        /\ \A i \in 0..(Len(ma.src) - 1) : ~isnan(ma.ret.out[i + 1])

\* the length of the arrays a call returned
OutLen(ret) == IF "len" \in DOMAIN ret THEN ret.len ELSE Len(ret.out)

\* C17: every kernel run on a series of n >= 1 bars with a window >= 1
\* touches only the indices 0..n-1 of its arrays, does not raise, and
\* returns outputs of length n.
C17_InBounds ==
    (ma.ret # None /\ ma.entry \in AllKernels /\ ma.window >= 1 /\ Len(ma.src) >= 1) =>
        /\ Touched(ma.entry, Len(ma.src), ma.window, ma.arg) \subseteq 0..(Len(ma.src) - 1)
        /\ ma.ret.kind = "ok"
        /\ OutLen(ma.ret) = Len(ma.src)

\* the dispatcher was called with a code
Dispatched == ma.ret # None /\ ma.entry = "universal_ma_1d_nb"

\* C18: for each of the 34 codes 0..33 universal_ma_1d_nb runs the kernel
\* of that code: its result is the result of calling that kernel on the
\* same series and window, and no code is served by another code's kernel.
C18_Dispatch ==
    (Dispatched /\ ma.arg \in 0..33) =>
        /\ ma.ret.kernel = own_kernel(ma.arg)
        /\ ma.ret \in CallOutcomes(own_kernel(ma.arg), ma.src, ma.window, 0)

\* an entry point was called with an unknown MA type or a window <= 0
BadMAConfig ==
    /\ ma.ret # None /\ ma.entry \in EntryPoints
    /\ \/ ma.window <= 0
       \/ isinstance_str(ma.ma_type) /\ ma.ma_type[2] \notin DOMAIN MA_TYPE_NAMES
       \/ ~isinstance_str(ma.ma_type) /\ ma.ma_type[2] \notin 0..33

\* C19: every entry point refuses an unknown MA type (a code outside 0..33
\* or a name that is not in MA_TYPE_NAMES) and a window <= 0 with an error
\* before any kernel runs; none runs another MA type instead.
C19_Rejects ==
    BadMAConfig => ma.ret.kind = "error" /\ ma.ret.kernel = "none"

\* C21: for every window >= 1 and every finite series dema_1d_nb(src, n)
\* is 2*EMA(src, n) - EMA(EMA(src, n), n) at every index, EMA being the
\* output of ema_1d_nb.
C21_DemaChain ==
    KernelCalled({"dema_1d_nb"}) =>
        /\ ma.ret.kind = "ok"
        /\ LET EMA == ema_1d_nb(ma.src, ma.window)
               EMA2 == ema_1d_nb(EMA, ma.window)
           IN  \A i \in 0..(Len(ma.src) - 1) :
                   ma.ret.out[i + 1] = FSub(FMul(R(2), EMA[i + 1]), EMA2[i + 1])

\* a DEMA on which the second smoothing shows: it differs from the EMA
C21_Witness ==
    /\ KernelCalled({"dema_1d_nb"}) /\ ma.ret.kind = "ok"
    /\ Len(ma.src) >= 2 /\ ma.window >= 2
    /\ ma.ret.out # ema_1d_nb(ma.src, ma.window)

\* C22: hull_1d_nb(src, n) is WMA(2*WMA(src, n/2) - WMA(src, n),
\* round(sqrt(n))) at every index, built from the outputs of wma_1d_nb as
\* they are: where an intermediate WMA output is missing the difference is
\* missing, and so is the Hull output.
C22_HullChain ==
    KernelCalled({"hull_1d_nb"}) =>
        /\ ma.ret.kind = "ok"
        /\ LET W1 == wma_1d_nb(ma.src, HalfWindow(ma.window))
               W2 == wma_1d_nb(ma.src, ma.window)
               D == [k \in 1..Len(ma.src) |-> FSub(FMul(R(2), W1[k]), W2[k])]
           IN  ma.ret.out = wma_1d_nb(D, RoundSqrt(ma.window))

\* C23: mcginley_1d_nb never divides by zero: on every finite series it
\* raises on no bar, at each bar where the divisor window*(src[i]/prev)^4
\* would be zero (prev = 0, or the ratio is 0) the output is the raw input
\* src[i], and no output is NaN.
C23_NoZeroDivision ==
    KernelCalled({"mcginley_1d_nb"}) =>
        /\ ma.ret.kind = "ok"
        /\ \A i \in 1..(Len(ma.src) - 1) :
               LET prev == ma.ret.out[i]
               IN  (prev = R(0) \/ FDiv(ma.src[i + 1], prev) = R(0)) =>
                       ma.ret.out[i + 1] = ma.src[i + 1]
        /\ \A i \in 0..(Len(ma.src) - 1) : ~isnan(ma.ret.out[i + 1])

\* C24: the Fisher series f3 of the Sniper core is defined and finite at
\* every bar for every input and every MA type: the core returns it, f3[0]
\* is 0, the rescaled stochastic is clamped to [-0.999, 0.999] before the
\* transform, and at a bar where the transformed value is NaN or infinite
\* f3[i] is f3[i-1].
C24_FisherFinite ==
    /\ (ma # None /\ ma.ret # None /\ ma.entry = "sniper_core_1d_nb"
            /\ Len(ma.src) >= 1 /\ ma.window >= 1) =>
        ma.ret.kind = "ok"
    /\ (kern # None /\ kern.core = "fisher" /\ kern.i >= 0) =>
        /\ kern.f3 \notin {NaN, Raised, <<1, 0>>, <<-1, 0>>}
        /\ kern.i = 0 => kern.f3 = R(0)
        /\ kern.i >= 1 =>
            /\ kern.k # NaN
            /\ kern.k[1] * 1000 >= -999 * kern.k[2]
            /\ kern.k[1] * 1000 <= 999 * kern.k[2]
            /\ kern.raw # Raised

\* spectral_analysis_1d_nb returned
SpectralReturned ==
    ma # None /\ ma.ret # None /\ ma.entry = "spectral_analysis_1d_nb"
    /\ ma.ret.kind = "ok"

\* C25: for both methods spectral_analysis_1d_nb returns a cycles matrix
\* with one column per period, each column the output of the filter for
\* that period whatever the mask is, and a composite whose bar i is the sum
\* of cycles[i, c] over exactly the columns c whose composite_mask flag is
\* set: every column under an all-set mask, 0 when no flag is set.
C25_Composite ==
    SpectralReturned =>
        LET n == Len(ma.src)
            cycles == ma.ret.out.cycles
            composite == ma.ret.out.composite
            flagged == {c \in PeriodColumns : ma.ret.composite_mask[c]}
        IN  /\ Len(cycles) = n /\ Len(composite) = n
            /\ \A k \in 1..n :
                /\ DOMAIN cycles[k] = PeriodColumns
                /\ \A c \in PeriodColumns : cycles[k][c] = ma.ret.filtered[c][k]
                /\ composite[k] = SetSum(cycles[k], flagged)
                /\ flagged = {} => composite[k] = 0

\* a call with one column flagged and the other not, at a bar where the
\* unflagged column is not zero
C25_Witness ==
    /\ SpectralReturned /\ Len(ma.src) >= 3
    /\ ma.ret.composite_mask[1] /\ ~ma.ret.composite_mask[2]
    /\ ma.ret.out.cycles[3][2] # 0
    /\ ma.ret.out.composite[3] = ma.ret.out.cycles[3][1]

----------------------------------------------------------------------------
(* Claims about zero-length series *)

\* the event or composite series a compute_signal call decided on
DecidedOn(outcome) ==
    IF "composite" \in DOMAIN outcome THEN outcome.composite ELSE outcome.major_buy

\* C20: a zero-length series fails explicitly: combine on a non-empty
\* mapping whose arrays all have length 0, a controller's compute_signal on
\* a frame of no bars and a kernel on a series of no bars end in an error,
\* not in an empty array or the neutral signal 0.
C20_ZeroLength ==
    /\ (result # None /\ DOMAIN signals # {}
            /\ \A name \in DOMAIN signals : Len(signals[name]) = 0) =>
        result.kind = "error"
    /\ (ctl # None /\ ctl.last # None /\ ctl.last.kind = "ok") =>
        Len(DecidedOn(ctl.last)) > 0
    /\ (sniper.ret # None /\ Len(sniper.major_buy) = 0) => sniper.ret.kind = "error"
    /\ (vzo.ret # None /\ Len(vzo.major_buy) = 0) => vzo.ret.kind = "error"
    /\ (ma # None /\ ma.ret # None /\ Len(ma.src) = 0) => ma.ret.kind = "error"

----------------------------------------------------------------------------
(* Claims about the controllers' update *)

\* what C29 says of one update_processed_data call
UpdateStep ==
    LET u == ctl'.update
        stored == ctl'._current_signal
    IN  /\ u.outcome # None <=> (u.provider /\ u.bars > 0)
        /\ u.outcome = None => stored = ctl._current_signal
        /\ (u.outcome # None /\ u.outcome.kind = "ok") => stored = u.outcome.value
        /\ (u.outcome # None /\ u.outcome.kind = "error") => stored = 0
        /\ ctl'.processed_data["signal"] = get_signal(ctl')

\* C29: update_processed_data changes the stored signal only by assigning
\* the result of compute_signal, or 0 when compute_signal raises; without a
\* market data provider, or when the candles convert to an empty frame,
\* compute_signal is not called and the stored signal keeps the value of the
\* previous update; on return processed_data["signal"] equals get_signal().
C29_UpdateFrame == [][UpdateProcessedData => UpdateStep]_vars

\* an update without a frame that kept a non-neutral signal
C29_Witness ==
    /\ ctl # None /\ ctl.update # None /\ ctl.update.outcome = None
    /\ get_signal(ctl) # 0 /\ ctl.processed_data["signal"] = get_signal(ctl)

----------------------------------------------------------------------------
(* Claims about the combiner's symmetry *)

\* every input array negated
Negated(sigs) ==
    [name \in DOMAIN sigs |-> [k \in 1..Len(sigs[name]) |-> 0 - sigs[name][k]]]

\* C30: for every mode and every configuration, negating every input array
\* negates the combined output at every bar, and an all-neutral input
\* yields an all-neutral output.
C30_Symmetry ==
    (memo # None /\ memo.result.kind = "ok") =>
        LET mirrored == combine(memo.config, Negated(memo.signals))
            bars == DOMAIN memo.result.arr
        IN  /\ mirrored.kind = "ok"
            /\ DOMAIN mirrored.arr = bars
            /\ \A i \in bars : mirrored.arr[i] = 0 - memo.result.arr[i]
            /\ (\A name \in DOMAIN memo.signals : \A i \in bars :
                    memo.signals[name][i] = 0)
                   => \A i \in bars : memo.result.arr[i] = 0

----------------------------------------------------------------------------
(* Claims about the service layer *)

\* a call of deploy_bot has ended
Deployed == svc # None /\ svc.pc = "done"

\* C26: deploy_bot sends the deploy POST at most twice per call: once when
\* the first attempt returns a response, a second time only when the first
\* attempt raised a connection error; a connection error on the second attempt
\* raises DeploymentError; a response with a status other than 200/201 raises
\* DeploymentError and is never retried; an indicator name outside
\* INDICATOR_CONTROLLER_MAP raises before any request is sent.
C26_DeployRetry ==
    svc # None =>
        LET sent == svc.sent
            Is(o, error) == o.kind = "raise" /\ o.error = error
        IN  /\ Len(sent) <= 2
            /\ (Len(sent) >= 1 /\ sent[1].kind = "response") => Len(sent) = 1
            /\ Len(sent) = 2 => Is(sent[1], "ConnectError")
            /\ (Deployed /\ Len(sent) = 2 /\ Is(sent[2], "ConnectError"))
                   => Is(svc.end, "DeploymentError")
            /\ \A k \in 1..Len(sent) :
                   (sent[k].kind = "response" /\ sent[k].status_code \notin {200, 201})
                       => /\ Deployed /\ k = Len(sent)
                          /\ Is(svc.end, "DeploymentError")
            /\ (Deployed /\ svc.indicator \notin DOMAIN INDICATOR_CONTROLLER_MAP)
                   => svc.end.kind = "raise" /\ sent = <<>>

\* what C27 says of one step of the updater
ShutdownStep ==
    \A p \in Pairs :
        LET pc == svc.loop[p].pc
            next == svc'.loop[p].pc
        IN  \* after stop(), a loop that reads the flag ends and starts no cycle
            /\ (svc.stop /\ pc = "while" /\ next # pc) => next = "done"
            /\ (svc.stop /\ next = "update") => pc = "update"
            /\ pc = "done" => next = "done"
            \* an update that ends, failed or not, leaves every loop running
            /\ (pc = "update" /\ next # pc) =>
                   /\ next \in {"sleep(interval)", "sleep(30)"}
                   /\ \A q \in Pairs : svc'.loop[q].pc = "done" => svc.loop[q].pc = "done"
            \* a loop ends only by reading a cleared flag
            /\ (next = "done" /\ pc # "done") => pc = "while" /\ ~svc._running

\* C27: once stop() is called while run() is active, every poll loop starts
\* no further update cycle after it next observes the flag, every poll loop
\* eventually exits and run() eventually returns (each update and each
\* sleep ending); a failed update of one pair ends neither its own loop nor
\* any other pair's loop.
C27_Shutdown ==
    /\ [][ShutdownStep]_vars
    /\ (svc.stop ~> (svc.run = "returned" /\ \A p \in Pairs : svc.loop[p].pc = "done"))

\* run() has returned after a stop() that found a loop in an update that
\* failed
C27_Witness ==
    /\ svc # None /\ svc.stop /\ svc.run = "returned"
    /\ \E p \in Pairs : svc.loop[p].last = "failed"
    /\ \E p \in Pairs : svc.loop[p].last = "raised"

\* C28: get_engine is a singleton: between two reset_engine calls at most
\* one engine is ever created and every get_engine call returns that same
\* instance, including when several threads call get_engine concurrently
\* while no engine exists yet.
C28_Singleton ==
    svc # None =>
        /\ svc.created <= 1
        /\ Cardinality(svc.returned) <= 1
        /\ 0 \notin svc.returned

=============================================================================
